---- MODULE Spec2Model ----
(***************************************************************************)
(* Model of the registry's TokenService (registry/services/                *)
(* token_service.py): issuance and verification of interaction tokens      *)
(* against a registry of agents and their permission grants.               *)
(*                                                                         *)
(* Time is counted in clock ticks, TicksPerSecond of them to a second, so  *)
(* that int(x.timestamp()) is a real truncation.  Strings that the code    *)
(* builds (JWTs, hashes, ciphertexts, error messages) are records that     *)
(* keep what the string was built from.                                    *)
(***************************************************************************)
EXTENDS Integers, Sequences, FiniteSets, TLC

(* ------------------------------ bounds -------------------------------- *)

\* The wall clock runs over 0..MaxClock ticks.
MaxClock == 3

\* Resolution of the clock: ticks in one second.
TicksPerSecond == 2

(* ----------------------------- universes ------------------------------ *)

AgentIds == {"a1", "a2"}

\* The provider an agent is registered under (a1 under p1, a2 under p2).
ProviderOf(a) == IF a = "a1" THEN "p1" ELSE "p2"

\* uuid4() draws from this pool; an id is never drawn twice.
TokenIds == {"j1"}

\* The callers whose TokenService calls run side by side.
Callers == {"t1", "t2"}

\* The ids uuid4() gives those calls.
IssueIds == {"j1", "j2"}

ALLOW_AGENT == "allow_agent"

ALLOW_PROVIDER == "allow_provider"

\* models.AgentPermission values, in the order an agent's list keeps them.
PermOrder ==
  << [type |-> ALLOW_AGENT, target_id |-> "a1"],
     [type |-> ALLOW_PROVIDER, target_id |-> "p2"] >>

PermUniverse == { PermOrder[i] : i \in DOMAIN PermOrder }

\* The longest permission list a directional check is asked about.
MaxPerms == 3

\* The ids grants name and checks ask about: one that is an agent's and one
\* that is a provider's.
QueryIds == {"a1", "p1"}

\* models.AgentPermission values over those ids.
QueryPerms == [type : {ALLOW_AGENT, ALLOW_PROVIDER}, target_id : QueryIds]

\* The permission lists of up to MaxPerms grants.
QueryLists == UNION { [1..n -> QueryPerms] : n \in 0..MaxPerms }

\* A call of _check_agent_has_permission: its arguments, whether it has
\* returned, and what it returned.
Query(agent_permissions, target_agent_id, target_provider_id, returned, result) ==
  [ agent_permissions |-> agent_permissions, target_agent_id |-> target_agent_id,
    target_provider_id |-> target_provider_id, returned |-> returned,
    result |-> result ]

NoQuery == Query(<< >>, "", "", FALSE, FALSE)

\* DPoP public keys as the caller hands them over: key material, with or
\* without the PEM markers around it.
DPoPKeys ==
  { [body |-> "k1", pem |-> FALSE], [body |-> "k2", pem |-> TRUE] }

NoJwk == "no_jwk"

\* DPoP proofs: signed by the holder of `signer`, for one method and URL,
\* carrying the public key `jwk` in the unverified header.
DPoPProofs ==
  { [signer |-> "k1", jwk |-> "k1", htm |-> "POST", htu |-> "u1"],
    [signer |-> "k2", jwk |-> "k2", htm |-> "POST", htu |-> "u1"] }

\* settings.TOKEN_EXPIRY_MINUTES, in ticks.
TOKEN_EXPIRY_TICKS == 2

\* expires_delta: None, or a timedelta in ticks.
NoDelta == [given |-> FALSE, ticks |-> 0]

ExpiresDeltas == { NoDelta, [given |-> TRUE, ticks |-> 1] }

\* An exception a collaborator may raise during a call (at most one a call).
CreateFaults == {"none", "get_agent", "verify_proof", "hash", "encrypt", "sign"}

VARIABLES
  registry,   \* AgentService: agent id -> [present, provider_id, grants]
  now,        \* the wall clock, in ticks
  issued,     \* the tokens create_interaction_token has returned
  call,       \* the arguments of the TokenService call that just ran
  last,       \* what that call returned or raised
  lapsed,     \* history: an issued token's pair lost mutual permission since
  message_handlers,    \* WebSocketHandler: the message types with a handler
  active_connections,  \* WebSocketHandler: channel id -> connection, or None
  connection,          \* each connection's handle_connection coroutine
  peer_closed,         \* the connections whose peer has closed the transport
  permission_query,    \* a call of _check_agent_has_permission: arguments, result
  thread               \* TokenService calls running side by side, step by step

token_vars == << registry, now, issued, call, last, lapsed >>

ws_vars == << message_handlers, active_connections, connection, peer_closed >>

direct_vars == << permission_query, thread >>

vars == << registry, now, issued, call, last, lapsed,
           message_handlers, active_connections, connection, peer_closed,
           permission_query, thread >>

(* ----------------------- values the code builds ----------------------- *)

NoKey == [body |-> "", pem |-> FALSE]

NoProof == [signer |-> "", jwk |-> "", htm |-> "", htu |-> ""]

\* DPoPVerifier.hash_dpop_proof: a digest that determines the proof.
hash_dpop_proof(proof) == [sha256_of |-> proof]

\* EncryptionManager.encrypt_field / decrypt_field: the ciphertext is not the
\* plaintext, and decrypting it gives the plaintext back.
encrypt_field(plain) == [ciphertext_of |-> plain]

decrypt_field(cipher) == cipher.ciphertext_of

NoClaims ==
  [ sub |-> "", target |-> "", dpop_hash |-> hash_dpop_proof(NoProof),
    dpop_public_key |-> encrypt_field(NoKey), exp |-> 0, iat |-> 0,
    iss |-> "", jti |-> "", nbf |-> 0, typ |-> "" ]

JWT_ALGORITHM == "RS256"

REGISTRY_PRIVATE_KEY == [pair |-> "registry", part |-> "private"]

REGISTRY_PUBLIC_KEY == [pair |-> "registry", part |-> "public"]

\* A key pair that is not the registry's.
OTHER_PRIVATE_KEY == [pair |-> "other", part |-> "private"]

\* jwt.encode: the claims, and a signature over exactly these claims.
jwt_encode(claims, key, algorithm) ==
  [ wellformed |-> TRUE, claims |-> claims,
    sig |-> [alg |-> algorithm, pair |-> key.pair, over |-> claims] ]

NoToken == [ wellformed |-> FALSE, claims |-> NoClaims,
             sig |-> [alg |-> "", pair |-> "", over |-> NoClaims] ]

\* int(dt.timestamp()): whole epoch seconds of a time given in ticks.
timestamp(ticks) == ticks \div TicksPerSecond

\* An error message: what str(e) is built from.
Msg(text, a, b) == [text |-> text, a |-> a, b |-> b]

NoMsg == Msg("", "", "")

\* log_service.log_event(name, details, level): the event logged.
Event(name, level, error, token_id, agent_id, target_agent_id, expires_at) ==
  [ name |-> name, level |-> level, error |-> error, token_id |-> token_id,
    agent_id |-> agent_id, target_agent_id |-> target_agent_id,
    expires_at |-> expires_at ]

\* An event whose details the model does not keep.
Log(name, level) == Event(name, level, NoMsg, "", "", "", 0)

(* ------------------------------ AgentService --------------------------- *)

\* AgentService.get_agent: the agent's record, or None.
get_agent(reg, id) ==
  IF id \in DOMAIN reg /\ reg[id].present
  THEN [ found |-> TRUE, provider_id |-> reg[id].provider_id,
         permissions |-> SelectSeq(PermOrder, LAMBDA p : p \in reg[id].grants) ]
  ELSE [ found |-> FALSE, provider_id |-> "", permissions |-> << >> ]

\* DPoPVerifier.verify_proof: the proof was signed by the holder of the key,
\* for this method and this URL.
verify_proof(proof, key, method, url) ==
  /\ proof.signer = key.body
  /\ proof.htm = method
  /\ proof.htu = url

(* ------------------------------ TokenService --------------------------- *)

\* Mutant: a grant authorizes whichever of the two ids it names, whatever its
\* kind.
_check_agent_has_permission_any_kind(agent_permissions, target_agent_id, target_provider_id) ==
  \E i \in DOMAIN agent_permissions :
    agent_permissions[i].target_id \in {target_agent_id, target_provider_id}

RECURSIVE _check_agent_has_permission(_, _, _)
_check_agent_has_permission(agent_permissions, target_agent_id, target_provider_id) ==
  IF agent_permissions = << >> THEN FALSE
  ELSE LET perm == Head(agent_permissions) IN
       IF perm.type = ALLOW_AGENT /\ perm.target_id = target_agent_id THEN TRUE
       ELSE IF perm.type = ALLOW_PROVIDER /\ perm.target_id = target_provider_id THEN TRUE
       ELSE _check_agent_has_permission(Tail(agent_permissions),
                                        target_agent_id, target_provider_id)

\* A holds a grant reaching B, and B holds a grant reaching A.
requesting_has_permission(requesting_agent, target_agent_id, target_agent) ==
  _check_agent_has_permission(requesting_agent.permissions,
                              target_agent_id, target_agent.provider_id)

\* Mutant: the target's grants toward the requester are not consulted.
target_has_permission_unchecked(target_agent, requesting_agent_id, requesting_agent) ==
  TRUE

target_has_permission(target_agent, requesting_agent_id, requesting_agent) ==
  _check_agent_has_permission(target_agent.permissions,
                              requesting_agent_id, requesting_agent.provider_id)

\* Mutant: a missing agent record is not checked for.
_verify_agent_permissions_no_lookup_check(reg, requesting_agent_id, target_agent_id, raises) ==
  IF raises
  THEN [result |-> FALSE, events |-> << Log("permission_check_error", "ERROR") >>]
  ELSE LET requesting_agent == get_agent(reg, requesting_agent_id)
           target_agent == get_agent(reg, target_agent_id)
       IN [ result |->
              /\ _check_agent_has_permission(requesting_agent.permissions,
                                             target_agent_id, target_agent.provider_id)
              /\ _check_agent_has_permission(target_agent.permissions,
                                             requesting_agent_id,
                                             requesting_agent.provider_id),
            events |-> << Log("permission_check", "INFO") >> ]

\* Mutant: a lookup that raises is taken for a pass.
_verify_agent_permissions_fail_open(reg, requesting_agent_id, target_agent_id, raises) ==
  IF raises
  THEN [result |-> TRUE, events |-> << Log("permission_check_error", "ERROR") >>]
  ELSE LET requesting_agent == get_agent(reg, requesting_agent_id)
           target_agent == get_agent(reg, target_agent_id)
       IN IF ~requesting_agent.found \/ ~target_agent.found
          THEN [result |-> FALSE,
                events |-> << Log("permission_check_failed", "ERROR") >>]
          ELSE [ result |->
                   /\ requesting_has_permission(requesting_agent, target_agent_id,
                                                target_agent)
                   /\ target_has_permission(target_agent, requesting_agent_id,
                                            requesting_agent),
                 events |-> << Log("permission_check", "INFO") >> ]

\* _verify_agent_permissions: the verdict and the events it logs.  `raises`
\* says that AgentService.get_agent raises during this call.
_verify_agent_permissions(reg, requesting_agent_id, target_agent_id, raises) ==
  IF raises
  THEN [result |-> FALSE, events |-> << Log("permission_check_error", "ERROR") >>]
  ELSE LET requesting_agent == get_agent(reg, requesting_agent_id)
           target_agent == get_agent(reg, target_agent_id)
       IN IF ~requesting_agent.found \/ ~target_agent.found
          THEN [result |-> FALSE,
                events |-> << Log("permission_check_failed", "ERROR") >>]
          ELSE [ result |->
                   /\ requesting_has_permission(requesting_agent, target_agent_id,
                                                target_agent)
                   /\ target_has_permission(target_agent, requesting_agent_id,
                                            requesting_agent),
                 events |-> << Log("permission_check", "INFO") >> ]

\* What a TokenService call leaves behind: the value it returned or the
\* ValueError it raised (`error` is the message's prefix, `cause` the str(e) it
\* wraps), how often DPoPVerifier.verify_proof ran, and the events logged.
Outcome(op, ok, error, cause, token, payload, expires_at, dpop_calls, key_source, events) ==
  [ op |-> op, ok |-> ok, error |-> error, cause |-> cause, token |-> token,
    payload |-> payload, expires_at |-> expires_at, dpop_calls |-> dpop_calls,
    key_source |-> key_source, events |-> events ]

NoCall == Outcome("none", FALSE, "", NoMsg, NoToken, NoClaims, 0, 0, "none", << >>)

\* Mutant: the failure is re-raised without being audited.
create_failed_unaudited(cause, agent_id, target_agent_id, dpop_calls, events) ==
  Outcome("create", FALSE, "Failed to create token", cause, NoToken, NoClaims,
          0, dpop_calls, "none", events)

\* The except branch of create_interaction_token: audit, then re-raise.
create_failed(cause, agent_id, target_agent_id, dpop_calls, events) ==
  Outcome("create", FALSE, "Failed to create token", cause, NoToken, NoClaims,
          0, dpop_calls, "none",
          Append(events, Event("token_creation_error", "ERROR", cause, "",
                               agent_id, target_agent_id, 0)))

\* Mutant: subject and target are exchanged in the signed claims.
to_encode_swapped(agent_id, target_agent_id, dpop_proof, dpop_public_key, clock, expires_at, token_id) ==
  [ sub |-> target_agent_id,
    target |-> agent_id,
    dpop_hash |-> hash_dpop_proof(dpop_proof),
    dpop_public_key |-> encrypt_field(dpop_public_key),
    exp |-> timestamp(expires_at),
    iat |-> timestamp(clock),
    iss |-> "registry",
    jti |-> token_id,
    nbf |-> timestamp(clock),
    typ |-> "interaction_token" ]

\* Mutant: the public key is signed into the claims as supplied.
to_encode_plain_key(agent_id, target_agent_id, dpop_proof, dpop_public_key, clock, expires_at, token_id) ==
  [ sub |-> agent_id,
    target |-> target_agent_id,
    dpop_hash |-> hash_dpop_proof(dpop_proof),
    dpop_public_key |-> dpop_public_key,
    exp |-> timestamp(expires_at),
    iat |-> timestamp(clock),
    iss |-> "registry",
    jti |-> token_id,
    nbf |-> timestamp(clock),
    typ |-> "interaction_token" ]

\* The claims create_interaction_token signs.
to_encode(agent_id, target_agent_id, dpop_proof, dpop_public_key, clock, expires_at, token_id) ==
  [ sub |-> agent_id,
    target |-> target_agent_id,
    dpop_hash |-> hash_dpop_proof(dpop_proof),
    dpop_public_key |-> encrypt_field(dpop_public_key),
    exp |-> timestamp(expires_at),
    iat |-> timestamp(clock),
    iss |-> "registry",
    jti |-> token_id,
    nbf |-> timestamp(clock),
    typ |-> "interaction_token" ]

\* Mutant: the supplied expires_delta is ignored.
expires_at_of_default_only(clock, expires_delta) ==
  clock + TOKEN_EXPIRY_TICKS

\* The expiry of a token issued at `clock`.
expires_at_of(clock, expires_delta) ==
  clock + (IF expires_delta.given THEN expires_delta.ticks ELSE TOKEN_EXPIRY_TICKS)

\* The mutual-permission step of create_interaction_token.
create_permission_step(reg, agent_id, target_agent_id, fault) ==
  _verify_agent_permissions(reg, agent_id, target_agent_id, fault = "get_agent")

\* Mutant: the verifier's verdict is not looked at.
create_proof_step_unchecked(dpop_proof, dpop_public_key, method, url, fault) ==
  IF fault = "verify_proof"
  THEN [raised |-> TRUE, valid |-> FALSE]
  ELSE [raised |-> FALSE, valid |-> TRUE]

\* The DPoP step of create_interaction_token: the exception the verifier
\* raises, or its verdict.
create_proof_step(dpop_proof, dpop_public_key, method, url, fault) ==
  IF fault = "verify_proof"
  THEN [raised |-> TRUE, valid |-> FALSE]
  ELSE [raised |-> FALSE,
        valid |-> verify_proof(dpop_proof, dpop_public_key, method, url)]

\* Mutant: the token id is not drawn anew for the call.
create_signed_same_id(clock, token_id, agent_id, target_agent_id, dpop_proof, dpop_public_key, expires_delta, fault, events) ==
  LET expires_at == expires_at_of(clock, expires_delta)
      claims == to_encode(agent_id, target_agent_id, dpop_proof, dpop_public_key,
                          clock, expires_at, "j1")
      encoded_jwt == jwt_encode(claims, REGISTRY_PRIVATE_KEY, JWT_ALGORITHM)
  IN IF fault \in {"hash", "encrypt", "sign"}
     THEN create_failed(Msg("raised", "", ""), agent_id, target_agent_id, 1, events)
     ELSE Outcome("create", TRUE, "", NoMsg, encoded_jwt, NoClaims, expires_at, 1,
                  "none",
                  Append(events, Event("token_issued", "INFO", NoMsg, "j1", agent_id,
                                       target_agent_id, expires_at)))

\* create_interaction_token once both checks have passed: hash, encrypt,
\* sign, audit.
create_signed(clock, token_id, agent_id, target_agent_id, dpop_proof, dpop_public_key, expires_delta, fault, events) ==
  IF fault = "hash"
  THEN create_failed(Msg("hash_dpop_proof raised", "", ""), agent_id,
                     target_agent_id, 1, events)
  ELSE IF fault = "encrypt"
  THEN create_failed(Msg("encrypt_field raised", "", ""), agent_id,
                     target_agent_id, 1, events)
  ELSE IF fault = "sign"
  THEN create_failed(Msg("jwt.encode raised", "", ""), agent_id,
                     target_agent_id, 1, events)
  ELSE
  LET expires_at == expires_at_of(clock, expires_delta)
      claims == to_encode(agent_id, target_agent_id, dpop_proof, dpop_public_key,
                          clock, expires_at, token_id)
      encoded_jwt == jwt_encode(claims, REGISTRY_PRIVATE_KEY, JWT_ALGORITHM)
  IN Outcome("create", TRUE, "", NoMsg, encoded_jwt, NoClaims, expires_at, 1, "none",
             Append(events, Event("token_issued", "INFO", NoMsg, token_id, agent_id,
                                  target_agent_id, expires_at)))

\* Mutant: the DPoP proof is verified before the permissions are.
create_interaction_token_proof_first(reg, clock, token_id, agent_id, target_agent_id, dpop_proof, dpop_public_key, method, url, expires_delta, fault) ==
  LET proof == create_proof_step(dpop_proof, dpop_public_key, method, url, fault) IN
  IF proof.raised
  THEN create_failed(Msg("verify_proof raised", "", ""), agent_id,
                     target_agent_id, 1, << >>)
  ELSE IF ~proof.valid
  THEN create_failed(Msg("Invalid DPoP proof", "", ""), agent_id,
                     target_agent_id, 1, << >>)
  ELSE
  LET perm == create_permission_step(reg, agent_id, target_agent_id, fault) IN
  IF ~perm.result
  THEN create_failed(Msg("Insufficient permissions between agents",
                         agent_id, target_agent_id),
                     agent_id, target_agent_id, 1, perm.events)
  ELSE create_signed(clock, token_id, agent_id, target_agent_id, dpop_proof,
                     dpop_public_key, expires_delta, fault, perm.events)

\* create_interaction_token, for the call made at time `clock` when uuid4()
\* gives `token_id`.
create_interaction_token(reg, clock, token_id, agent_id, target_agent_id, dpop_proof, dpop_public_key, method, url, expires_delta, fault) ==
  LET perm == create_permission_step(reg, agent_id, target_agent_id, fault) IN
  IF ~perm.result
  THEN create_failed(Msg("Insufficient permissions between agents",
                         agent_id, target_agent_id),
                     agent_id, target_agent_id, 0, perm.events)
  ELSE
  LET proof == create_proof_step(dpop_proof, dpop_public_key, method, url, fault) IN
  IF proof.raised
  THEN create_failed(Msg("verify_proof raised", "", ""), agent_id,
                     target_agent_id, 1, perm.events)
  ELSE IF ~proof.valid
  THEN create_failed(Msg("Invalid DPoP proof", "", ""), agent_id,
                     target_agent_id, 1, perm.events)
  ELSE create_signed(clock, token_id, agent_id, target_agent_id, dpop_proof,
                     dpop_public_key, expires_delta, fault, perm.events)

\* Mutant: the signature is not verified (verify_signature off).
jwt_decode_unverified(token, key, clock) ==
  IF ~token.wellformed
  THEN [ok |-> FALSE, error |-> "Not enough segments", payload |-> NoClaims]
  ELSE IF token.claims.iat * TicksPerSecond > clock
  THEN [ok |-> FALSE, error |-> "The token is not yet valid (iat)",
        payload |-> NoClaims]
  ELSE IF token.claims.nbf * TicksPerSecond > clock
  THEN [ok |-> FALSE, error |-> "The token is not yet valid (nbf)",
        payload |-> NoClaims]
  ELSE IF token.claims.exp * TicksPerSecond <= clock
  THEN [ok |-> FALSE, error |-> "Signature has expired", payload |-> NoClaims]
  ELSE [ok |-> TRUE, error |-> "", payload |-> token.claims]

\* Mutant: the exp claim is not checked (verify_exp off).
jwt_decode_no_exp(token, key, clock) ==
  IF ~token.wellformed
  THEN [ok |-> FALSE, error |-> "Not enough segments", payload |-> NoClaims]
  ELSE IF token.sig.alg # "RS256"
  THEN [ok |-> FALSE, error |-> "The specified alg value is not allowed",
        payload |-> NoClaims]
  ELSE IF token.sig.pair # key.pair \/ token.sig.over # token.claims
  THEN [ok |-> FALSE, error |-> "Signature verification failed",
        payload |-> NoClaims]
  ELSE IF token.claims.iat * TicksPerSecond > clock
  THEN [ok |-> FALSE, error |-> "The token is not yet valid (iat)",
        payload |-> NoClaims]
  ELSE IF token.claims.nbf * TicksPerSecond > clock
  THEN [ok |-> FALSE, error |-> "The token is not yet valid (nbf)",
        payload |-> NoClaims]
  ELSE [ok |-> TRUE, error |-> "", payload |-> token.claims]

\* Mutant: a token is good for one verification; once a call has verified
\* it, it is refused.
jwt_decode_single_use(token, key, clock) ==
  IF \E q \in Callers : /\ thread[q].pc = "done"
                        /\ thread[q].args.op = "verify"
                        /\ thread[q].args.token = token
                        /\ thread[q].out.ok
  THEN [ok |-> FALSE, error |-> "Token already used", payload |-> NoClaims]
  ELSE IF ~token.wellformed
  THEN [ok |-> FALSE, error |-> "Not enough segments", payload |-> NoClaims]
  ELSE IF token.sig.alg # "RS256"
  THEN [ok |-> FALSE, error |-> "The specified alg value is not allowed",
        payload |-> NoClaims]
  ELSE IF token.sig.pair # key.pair \/ token.sig.over # token.claims
  THEN [ok |-> FALSE, error |-> "Signature verification failed",
        payload |-> NoClaims]
  ELSE IF token.claims.iat * TicksPerSecond > clock
  THEN [ok |-> FALSE, error |-> "The token is not yet valid (iat)",
        payload |-> NoClaims]
  ELSE IF token.claims.nbf * TicksPerSecond > clock
  THEN [ok |-> FALSE, error |-> "The token is not yet valid (nbf)",
        payload |-> NoClaims]
  ELSE IF token.claims.exp * TicksPerSecond <= clock
  THEN [ok |-> FALSE, error |-> "Signature has expired", payload |-> NoClaims]
  ELSE [ok |-> TRUE, error |-> "", payload |-> token.claims]

\* jwt.decode(token, key, algorithms=["RS256"]) read at time `clock`: the
\* payload, or the jwt.InvalidTokenError it raises.  The claims are checked
\* after the signature: iat, nbf, then exp, against the clock in seconds.
jwt_decode(token, key, clock) ==
  IF ~token.wellformed
  THEN [ok |-> FALSE, error |-> "Not enough segments", payload |-> NoClaims]
  ELSE IF token.sig.alg # "RS256"
  THEN [ok |-> FALSE, error |-> "The specified alg value is not allowed",
        payload |-> NoClaims]
  ELSE IF token.sig.pair # key.pair \/ token.sig.over # token.claims
  THEN [ok |-> FALSE, error |-> "Signature verification failed",
        payload |-> NoClaims]
  ELSE IF token.claims.iat * TicksPerSecond > clock
  THEN [ok |-> FALSE, error |-> "The token is not yet valid (iat)",
        payload |-> NoClaims]
  ELSE IF token.claims.nbf * TicksPerSecond > clock
  THEN [ok |-> FALSE, error |-> "The token is not yet valid (nbf)",
        payload |-> NoClaims]
  ELSE IF token.claims.exp * TicksPerSecond <= clock
  THEN [ok |-> FALSE, error |-> "Signature has expired", payload |-> NoClaims]
  ELSE [ok |-> TRUE, error |-> "", payload |-> token.claims]

\* The except branches of verify_token.
verify_failed(error, cause, dpop_calls, key_source, events) ==
  Outcome("verify", FALSE, error, cause, NoToken, NoClaims, 0, dpop_calls,
          key_source, events)

\* Mutant: the expected target is never compared.
target_mismatch_ignored(expected_target, payload) == FALSE

\* `if expected_target and str(expected_target) != payload["target"]`
target_mismatch(expected_target, payload) ==
  expected_target # "" /\ expected_target # payload.target

\* Mutant: a proof alone starts the DPoP step.
dpop_supplied_proof_only(dpop_proof, method, url) == dpop_proof # NoProof

\* `if dpop_proof and method and url`
dpop_supplied(dpop_proof, method, url) ==
  dpop_proof # NoProof /\ method # "" /\ url # ""

\* Mutant: the key in the proof's JWK header is preferred over the token's.
dpop_key_for_jwk_first(payload, dpop_proof, fault) ==
  IF dpop_proof.jwk = NoJwk
  THEN [found |-> TRUE, source |-> "token",
        key |-> decrypt_field(payload.dpop_public_key),
        events |-> << Log("dpop_verification_info", "INFO") >>]
  ELSE [found |-> TRUE, source |-> "jwk",
        key |-> [body |-> dpop_proof.jwk, pem |-> TRUE],
        events |-> << Log("dpop_verification_info", "INFO"),
                      Log("dpop_verification_info", "INFO") >>]

\* Mutant: no fallback; a claim that does not decrypt leaves no key.
dpop_key_for_bound_only(payload, dpop_proof, fault) ==
  IF payload.dpop_public_key # encrypt_field(NoKey) /\ fault # "decrypt"
  THEN [found |-> TRUE, source |-> "token",
        key |-> decrypt_field(payload.dpop_public_key),
        events |-> << Log("dpop_verification_info", "INFO") >>]
  ELSE [found |-> FALSE, source |-> "token", key |-> NoKey,
        events |-> << Log("dpop_verification_error", "ERROR") >>]

\* The key verify_token checks the verifier's proof against: decrypted from
\* the token's claim, else rebuilt as PEM from the proof's own JWK header.
\* found = FALSE when neither gives a key.
dpop_key_for(payload, dpop_proof, fault) ==
  LET dpop_public_key == payload.dpop_public_key
      from_token == dpop_public_key # encrypt_field(NoKey) /\ fault # "decrypt"
  IN IF from_token
     THEN [found |-> TRUE, source |-> "token", key |-> decrypt_field(dpop_public_key),
           events |-> << Log("dpop_verification_info", "INFO") >>]
     ELSE LET tried == IF dpop_public_key # encrypt_field(NoKey)
                       THEN << Log("dpop_verification_error", "ERROR") >>
                       ELSE << >>
          IN IF dpop_proof.jwk = NoJwk
             THEN [found |-> FALSE, source |-> "jwk", key |-> NoKey,
                   events |-> Append(tried, Log("dpop_verification_error", "ERROR"))]
             ELSE [found |-> TRUE, source |-> "jwk",
                   key |-> [body |-> dpop_proof.jwk, pem |-> TRUE],
                   events |-> tried \o << Log("dpop_verification_info", "INFO"),
                                          Log("dpop_verification_info", "INFO") >>]

\* `if ... not decrypted_public_key.startswith('-----BEGIN PUBLIC KEY-----')`
ensure_pem(key) == IF key.pem THEN key ELSE [key EXCEPT !.pem = TRUE]

\* Mutant: permissions are not looked up again at verification.
verify_permission_step_skipped(reg, payload, fault) ==
  [result |-> TRUE, events |-> << >>]

\* Mutant: the grants are taken as they stood at issuance; only the two
\* agents are looked up again.
verify_permission_step_as_issued(reg, payload, fault) ==
  [result |-> /\ fault # "get_agent"
              /\ get_agent(reg, payload.sub).found
              /\ get_agent(reg, payload.target).found,
   events |-> << >>]

\* The permission step of verify_token, on the live registry.
verify_permission_step(reg, payload, fault) ==
  _verify_agent_permissions(reg, payload.sub, payload.target, fault = "get_agent")

\* The steps of verify_token after a payload was decoded and its target
\* accepted, given what the DPoP branch left (calls, key source, events).
verify_finish(reg, payload, fault, dpop_calls, key_source, events) ==
  LET perm == verify_permission_step(reg, payload, fault) IN
  IF ~perm.result
  THEN verify_failed("Token verification failed",
                     Msg("Agent permissions have been revoked", "", ""),
                     dpop_calls, key_source, events \o perm.events)
  ELSE Outcome("verify", TRUE, "", NoMsg, NoToken, payload, 0, dpop_calls,
               key_source, events \o perm.events)

\* The DPoP branch of verify_token and what follows it.
verify_dpop(reg, payload, dpop_proof, method, url, fault) ==
  IF fault = "get_agent"
  THEN verify_failed("Token verification failed", Msg("get_agent raised", "", ""),
                     0, "none", << >>)
  ELSE IF ~get_agent(reg, payload.target).found
  THEN verify_failed("Token verification failed",
                     Msg("Verifying agent not found", "", ""), 0, "none", << >>)
  ELSE
  LET k == dpop_key_for(payload, dpop_proof, fault)
      wrap(text, ev, calls) ==
        verify_failed("Token verification failed",
                      Msg("Could not verify DPoP proof", text, ""), calls, k.source,
                      (k.events \o ev)
                        \o << Log("dpop_verification_error", "ERROR") >>)
  IN IF ~k.found
     THEN wrap("Failed to extract public key from DPoP proof", << >>, 0)
     ELSE IF fault = "verify_proof"
     THEN wrap("verify_proof raised", << >>, 1)
     ELSE IF ~verify_proof(dpop_proof, ensure_pem(k.key), method, url)
     THEN wrap("Invalid DPoP proof from verifying agent", << >>, 1)
     ELSE verify_finish(reg, payload, fault, 1, k.source, k.events)

\* Mutant: the live permission check runs before the target and the proof.
verify_token_permission_first(reg, clock, token, expected_target, dpop_proof, method, url, fault) ==
  LET decoded == jwt_decode(token, REGISTRY_PUBLIC_KEY, clock) IN
  IF ~decoded.ok
  THEN verify_failed("Invalid token", Msg(decoded.error, "", ""), 0, "none", << >>)
  ELSE IF ~verify_permission_step(reg, decoded.payload, fault).result
  THEN verify_failed("Token verification failed",
                     Msg("Agent permissions have been revoked", "", ""),
                     0, "none", << >>)
  ELSE IF target_mismatch(expected_target, decoded.payload)
  THEN verify_failed("Token verification failed",
                     Msg("Target agent ID mismatch", "", ""), 0, "none", << >>)
  ELSE IF dpop_supplied(dpop_proof, method, url)
  THEN verify_dpop(reg, decoded.payload, dpop_proof, method, url, fault)
  ELSE verify_finish(reg, decoded.payload, fault, 0, "none", << >>)

\* verify_token, for the call made at time `clock`.
verify_token(reg, clock, token, expected_target, dpop_proof, method, url, fault) ==
  LET decoded == jwt_decode(token, REGISTRY_PUBLIC_KEY, clock) IN
  IF ~decoded.ok
  THEN verify_failed("Invalid token", Msg(decoded.error, "", ""), 0, "none", << >>)
  ELSE IF target_mismatch(expected_target, decoded.payload)
  THEN verify_failed("Token verification failed",
                     Msg("Target agent ID mismatch", "", ""), 0, "none", << >>)
  ELSE IF dpop_supplied(dpop_proof, method, url)
  THEN verify_dpop(reg, decoded.payload, dpop_proof, method, url, fault)
  ELSE verify_finish(reg, decoded.payload, fault, 0, "none", << >>)

(* ------------------------------- inputs -------------------------------- *)

Key(body) == CHOOSE k \in DPoPKeys : k.body = body

\* (key, method, url) as a caller of create_interaction_token supplies them.
CreateRequests ==
  { [key |-> Key("k1"), method |-> "POST", url |-> "u1"],
    [key |-> Key("k2"), method |-> "POST", url |-> "u1"],
    [key |-> Key("k1"), method |-> "GET", url |-> "u1"],
    [key |-> Key("k1"), method |-> "POST", url |-> "u2"] }

\* (agent_id, target_agent_id) as a caller of create_interaction_token
\* supplies them.
CreatePairs == { pr \in AgentIds \X AgentIds : pr[1] # pr[2] }

\* The proofs a caller of create_interaction_token supplies.
CreateProofs == { p \in DPoPProofs : p.signer = "k1" }

\* A proof without a JWK header.
ProofNoJwk == [signer |-> "k1", jwk |-> NoJwk, htm |-> "POST", htu |-> "u1"]

\* A proof signed by the holder of k1 whose JWK header carries another key.
ProofOtherJwk == [signer |-> "k1", jwk |-> "k2", htm |-> "POST", htu |-> "u1"]

\* (dpop_proof, method, url) as a caller of verify_token supplies them; the
\* empty string and NoProof stand for None.
VerifyRequests ==
  { [dpop_proof |-> NoProof, method |-> "", url |-> ""],
    [dpop_proof |-> ProofNoJwk, method |-> "POST", url |-> "u1"],
    [dpop_proof |-> ProofOtherJwk, method |-> "POST", url |-> "u1"] }
  \cup { [dpop_proof |-> p, method |-> "POST", url |-> "u1"] : p \in DPoPProofs }
  \cup { [dpop_proof |-> p, method |-> "GET", url |-> "u1"] : p \in CreateProofs }
  \cup { [dpop_proof |-> p, method |-> "POST", url |-> ""] : p \in CreateProofs }
  \cup { [dpop_proof |-> p, method |-> "", url |-> "u1"] : p \in DPoPProofs \ CreateProofs }

VerifyFaults == {"none", "get_agent", "decrypt", "verify_proof"}

\* The token strings a caller may present, given what was issued: the issued
\* tokens, each with its payload altered under the old signature or signed
\* by another key, and a string that is no JWT.
Tampered(t) ==
  { [t EXCEPT !.claims.target = IF @ = "a1" THEN "a2" ELSE "a1"],
    jwt_encode(t.claims, OTHER_PRIVATE_KEY, JWT_ALGORITHM) }

Presented(tokens) ==
  tokens \cup UNION { Tampered(t) : t \in tokens } \cup {NoToken}

\* The arguments of a call, as `call` keeps them.
Args(op, agent_id, target_agent_id, token, expected_target, dpop_proof, dpop_public_key, method, url, expires_delta, fault) ==
  [ op |-> op, agent_id |-> agent_id, target_agent_id |-> target_agent_id,
    token |-> token, expected_target |-> expected_target,
    dpop_proof |-> dpop_proof, dpop_public_key |-> dpop_public_key,
    method |-> method, url |-> url, expires_delta |-> expires_delta,
    fault |-> fault ]

NoArgs == Args("none", "", "", NoToken, "", NoProof, NoKey, "", "", NoDelta, "none")

\* AgentService has no record of the agent.
NoAgent == [present |-> FALSE, provider_id |-> "", grants |-> {}]

\* One call in progress: where it is (pc), its arguments, the registry as it
\* was when the call began, and the call's locals: the clock value it read,
\* the verdict of the permission check, the decoded payload, the events
\* logged so far, and what it returned or raised.
Thread(pc, args, reg, clock, permitted, payload, events, out) ==
  [ pc |-> pc, args |-> args, reg |-> reg, now |-> clock, permitted |-> permitted,
    payload |-> payload, events |-> events, out |-> out ]

NoThread ==
  Thread("idle", NoArgs, [a \in AgentIds |-> NoAgent], 0, FALSE, NoClaims, << >>, NoCall)

(* ---------------------- WebSocketHandler: values ----------------------- *)

ConnIds == {"w1", "w2"}

ChannelIds == {"c1", "c2"}

\* Python's None.
None == ""

\* A key that a JSON object does not carry.
Missing == "<missing>"

\* MessageType, the content discriminators of the channel protocol.
CHANNEL_OPEN == "channel.open"

CHANNEL_ACCEPT == "channel.accept"

CHANNEL_CLOSE == "channel.close"

HEARTBEAT == "heartbeat"

ERROR == "error"

\* A message type the host application defines.
APP_TYPE == "app.task"

\* The message types the host registers handlers under: an application
\* type, and one the protocol handles itself.
HandlerTypes == {APP_TYPE, HEARTBEAT}

\* self.authed.agent_id
AGENT_ID == "server"

\* The policy-violation close code.
POLICY_VIOLATION == 1008

\* The Authorization header of a connection request: whether it is there,
\* whether it starts with 'Bearer ', and what follows.
Header(present, bearer, credentials) ==
  [present |-> present, bearer |-> bearer, credentials |-> credentials]

Headers ==
  { Header(FALSE, FALSE, ""), Header(TRUE, FALSE, ""),
    Header(TRUE, TRUE, ""), Header(TRUE, TRUE, "t1") }

\* `not auth_header`: no header, or an empty one.
no_auth_header(auth_header) ==
  ~auth_header.present \/ (~auth_header.bearer /\ auth_header.credentials = "")

\* auth_header.replace('Bearer ', '')
bearer_token(auth_header) == auth_header.credentials

\* What awaiting self.authed.auth.verify_token can give; "no_method" is an
\* auth object without verify_token.
VerifierOutcomes == {"valid", "invalid", "AuthenticationError", "Exception", "no_method"}

\* An inbound frame: text that json.loads rejects, or a JSON object with or
\* without its meta and content sections and the keys inside them.
Frame(raw, meta, content, type, message_id, sender_id, channel_id, data, reason) ==
  [ raw |-> raw, meta |-> meta, content |-> content, type |-> type,
    message_id |-> message_id, sender_id |-> sender_id,
    channel_id |-> channel_id, data |-> data, reason |-> reason ]

NoFrame == Frame("", FALSE, FALSE, "", "", "", "", FALSE, "")

NotJson == Frame("garbage", FALSE, FALSE, "", "", "", "", FALSE, "")

NoMeta == Frame("json", FALSE, TRUE, CHANNEL_OPEN, Missing, Missing, Missing, TRUE, Missing)

NoContent == Frame("json", TRUE, FALSE, Missing, "m1", "s1", "c1", FALSE, Missing)

WellFormed(type, channel_id, message_id) ==
  Frame("json", TRUE, TRUE, type, message_id, "s1", channel_id, TRUE, "bye")

\* A CHANNEL_OPEN whose meta has no sender_id.
OpenNoSender == [WellFormed(CHANNEL_OPEN, "c1", "m1") EXCEPT !.sender_id = Missing]

\* A CHANNEL_CLOSE whose content has no data, and one whose data has no reason.
CloseNoData == [WellFormed(CHANNEL_CLOSE, "c1", "m1") EXCEPT !.data = FALSE, !.reason = Missing]

CloseNoReason == [WellFormed(CHANNEL_CLOSE, "c1", "m1") EXCEPT !.reason = Missing]

\* The frames a peer sends. Message ids go with channel ids: m1 on c1, m2
\* on c2.
Frames ==
  {NotJson, NoMeta, NoContent, OpenNoSender, CloseNoData, CloseNoReason}
  \cup { WellFormed(t, "c1", "m1") : t \in {CHANNEL_OPEN, CHANNEL_CLOSE, HEARTBEAT, APP_TYPE} }
  \cup { WellFormed(t, "c2", "m2") : t \in {CHANNEL_OPEN, CHANNEL_CLOSE, HEARTBEAT} }

\* The second connection's peer only manages channel c1; it closes under
\* another sender id than it opens with.
PeerFrames ==
  { WellFormed(CHANNEL_OPEN, "c1", "m1"),
    [WellFormed(CHANNEL_CLOSE, "c1", "m1") EXCEPT !.sender_id = "s2"] }

FramesOf(k) == IF k = "w1" THEN Frames ELSE PeerFrames

\* The text of an ERROR message: a fixed part and what is formatted into it.
Text(text, arg) == [text |-> text, arg |-> arg]

NoText == Text("", "")

\* content.data of an outbound message.
Data(protocol_version, capabilities, acknowledged, reason, message) ==
  [ protocol_version |-> protocol_version, capabilities |-> capabilities,
    acknowledged |-> acknowledged, reason |-> reason, message |-> message ]

NoData == Data("", << >>, FALSE, "", NoText)

\* An outbound message (message_id and timestamp are fresh each time and
\* carry nothing).
Reply(type, sequence, channel_id, reply_to, recipient_id, data) ==
  [ type |-> type, sender_id |-> AGENT_ID, recipient_id |-> recipient_id,
    sequence |-> sequence, channel_id |-> channel_id, reply_to |-> reply_to,
    data |-> data ]

NoReply == Reply("", 0, "", "", "", NoData)

NoHeader == Header(FALSE, FALSE, "")

\* connection_info and the position of handle_connection:
\*   pc        "new", "verifying", "receiving", "handling", "sending", "ended"
\*   auth_header, verifier   the request's Authorization header and what
\*             verifying its token came to: "valid", "invalid" or the
\*             exception raised ("" before that)
\*   site      where the pending send is awaited: "try" (inside the loop's
\*             try), "except" (inside one of its except clauses), "close"
\*             (inside _handle_channel_close's own try)
\*   frame, branch, handled, replies   the frame the loop took last, the
\*             dispatch branch it reached, whether a registered handler was
\*             called for it, and what was sent while processing it
\*   send_failed   an awaited send raised while that frame was processed
\*   returned  what the registered handler called for that frame came to:
\*             "response", "empty", "none" or "raises" ("" when none was
\*             called or it has not finished)
NewConnection ==
  [ pc |-> "new", auth_header |-> NoHeader, verifier |-> "",
    agent_id |-> None, channel_id |-> None,
    transport |-> "open", close_code |-> 0, close_reason |-> "",
    ended_by |-> "", frame |-> NoFrame, branch |-> "", handled |-> FALSE,
    send_failed |-> FALSE, returned |-> "",
    replies |-> << >>, pending |-> NoReply, site |-> "" ]

(* -------------------- WebSocketHandler: the handler -------------------- *)

\* Each step of handle_connection gives the connection's new connection_info
\* and position, and the new active_connections.
Result(info, active) == [info |-> info, active |-> active]

\* websocket.close(code, reason) followed by return.
closed(info, code, reason, by) ==
  [info EXCEPT !.pc = "ended", !.close_code = code, !.close_reason = reason,
               !.ended_by = by]

\* Mutant: the header is not looked at.
authenticate_unchecked(info, auth_header) ==
  [info EXCEPT !.pc = "verifying", !.auth_header = auth_header]

\* handle_connection up to its first await on the verifier.
authenticate(info, auth_header) ==
  LET arrived == [info EXCEPT !.auth_header = auth_header] IN
  IF no_auth_header(auth_header)
  THEN closed(arrived, POLICY_VIOLATION, "Missing authentication", "missing_auth")
  ELSE [arrived EXCEPT !.pc = "verifying"]

\* is_valid, where the verifier returns at all.
is_valid(token, outcome) ==
  IF outcome = "no_method" THEN token # "" ELSE outcome = "valid"

\* handle_connection from the verifier's answer to the receive loop.
after_verify(info, outcome) ==
  LET token == bearer_token(info.auth_header)
      came_to(v) == [info EXCEPT !.verifier = v]
  IN
  IF outcome = "AuthenticationError"
  THEN closed(came_to(outcome), POLICY_VIOLATION, "Authentication error", "auth_error")
  ELSE IF outcome = "Exception"
  THEN [came_to(outcome) EXCEPT !.pc = "ended", !.ended_by = "verifier_exception"]
  ELSE IF ~is_valid(token, outcome)
  THEN closed(came_to("invalid"), POLICY_VIOLATION, "Invalid authentication",
              "invalid_auth")
  ELSE [came_to("valid") EXCEPT !.pc = "receiving"]

\* Mutant: errors are never addressed, whatever the caller passes.
_send_error_anonymous(error_message, reply_to, sender_id) ==
  Reply(ERROR, 0, "error", None, "anonymous",
        [NoData EXCEPT !.message = error_message])

_send_error(error_message, reply_to, sender_id) ==
  Reply(ERROR, 0, "error", reply_to,
        IF sender_id = None THEN "anonymous" ELSE sender_id,
        [NoData EXCEPT !.message = error_message])

\* Mutant: the accept is built like a heartbeat answer, with no reply_to.
_handle_channel_open_unanswering(message) ==
  Reply(CHANNEL_ACCEPT, 0, message.channel_id, None, message.sender_id,
        Data("1.0", << "json" >>, FALSE, "", NoText))

\* The response _handle_channel_open builds.
_handle_channel_open(message) ==
  Reply(CHANNEL_ACCEPT, 1, message.channel_id, message.message_id,
        message.sender_id, Data("1.0", << "json" >>, FALSE, "", NoText))

\* The response _handle_channel_close builds.
_handle_channel_close(message) ==
  LET reason == IF message.reason = Missing THEN "normal" ELSE message.reason
  IN Reply(CHANNEL_CLOSE, 1, message.channel_id, message.message_id,
           message.sender_id, Data("", << >>, TRUE, reason, NoText))

\* Mutant: heartbeats are answered with the sequence number of an accept and
\* on the error channel.
_handle_heartbeat_misnumbered(message) ==
  Reply(HEARTBEAT, 1, "error", message.message_id, message.sender_id, NoData)

\* The response _handle_heartbeat builds.
_handle_heartbeat(message) ==
  Reply(HEARTBEAT, 0, message.channel_id, message.message_id,
        message.sender_id, NoData)

\* What a registered handler returns when it returns a response.
handler_response(message) ==
  Reply(APP_TYPE, 0, message.channel_id, message.message_id,
        message.sender_id, NoData)

\* message["meta"][...] raises KeyError in the three channel handlers.
meta_KeyError(message) ==
  Missing \in {message.channel_id, message.sender_id, message.message_id}

\* The finally clause of handle_connection.
finally_clause(info, active) ==
  IF info.channel_id # None
  THEN [active EXCEPT ![info.channel_id] = None]
  ELSE active

\* handle_connection leaves the loop and returns.
handler_ends(info, active, by) ==
  Result([info EXCEPT !.pc = "ended", !.ended_by = by, !.pending = NoReply,
                      !.site = ""],
         finally_clause(info, active))

\* The loop goes back to `async for`.
next_message(info) ==
  [info EXCEPT !.pc = "receiving", !.pending = NoReply, !.site = ""]

\* `except Exception as e` of the loop body, up to the await in _send_error.
except_Exception(info, e) ==
  [info EXCEPT !.pc = "sending", !.site = "except",
               !.pending = _send_error(Text("Internal error", e), None, None)]

\* A send awaited inside the loop body's try.
send_in_try(info, reply) ==
  [info EXCEPT !.pc = "sending", !.site = "try", !.pending = reply]

\* The loop body from the sender update to the first await, for a message
\* that has its meta and content sections.
dispatch(k, info, active, handlers, message) ==
  LET seen == IF message.sender_id # Missing
              THEN [info EXCEPT !.agent_id = message.sender_id]
              ELSE info
      content_type == message.type
      at(branch) == [seen EXCEPT !.branch = branch]
  IN
  IF content_type = CHANNEL_OPEN
  THEN IF message.channel_id = Missing
       THEN Result(except_Exception(at("open"), "KeyError"), active)
       ELSE LET bound == [at("open") EXCEPT !.channel_id = message.channel_id]
                registered == [active EXCEPT ![message.channel_id] = k]
            IN IF meta_KeyError(message)
               THEN Result(except_Exception(bound, "KeyError"), registered)
               ELSE Result(send_in_try(bound, _handle_channel_open(message)),
                           registered)
  ELSE IF content_type = CHANNEL_CLOSE
  THEN IF meta_KeyError(message) \/ ~message.data
       THEN Result(except_Exception(at("close"), "KeyError"), active)
       ELSE Result([at("close") EXCEPT !.pc = "sending", !.site = "close",
                                      !.pending = _handle_channel_close(message)],
                   active)
  ELSE IF content_type = HEARTBEAT
  THEN IF meta_KeyError(message)
       THEN Result(except_Exception(at("heartbeat"), "KeyError"), active)
       ELSE Result(send_in_try(at("heartbeat"), _handle_heartbeat(message)), active)
  ELSE IF content_type \in handlers
  THEN Result([at("handler") EXCEPT !.pc = "handling", !.handled = TRUE], active)
  ELSE IF Missing \in {message.message_id, message.sender_id}
  THEN Result(except_Exception(at("unsupported"), "KeyError"), active)
  ELSE Result(send_in_try(at("unsupported"),
                          _send_error(Text("Unsupported message type", content_type),
                                      message.message_id, message.sender_id)),
              active)

\* Mutant: frames are dispatched without being validated.
on_message_unvalidated(k, info, active, handlers, message_data) ==
  dispatch(k, [info EXCEPT !.frame = message_data, !.branch = "",
                           !.handled = FALSE, !.send_failed = FALSE,
                           !.returned = "", !.replies = << >>],
           active, handlers, message_data)

\* The loop body for one frame, up to its first await.
on_message(k, info, active, handlers, message_data) ==
  LET fresh == [info EXCEPT !.frame = message_data, !.branch = "",
                            !.handled = FALSE, !.send_failed = FALSE,
                            !.returned = "", !.replies = << >>]
  IN IF message_data.raw # "json"
     THEN Result([fresh EXCEPT !.pc = "sending", !.site = "except",
                    !.pending = _send_error(Text("Invalid JSON", ""), None, None)],
                 active)
     ELSE IF ~message_data.meta \/ ~message_data.content
     THEN Result(send_in_try(fresh, _send_error(Text("Invalid message format", ""),
                                                None, None)),
                 active)
     ELSE dispatch(k, fresh, active, handlers, message_data)

\* Mutant: what the handler returns is dropped.
after_handler_silent(info, outcome) ==
  IF outcome = "raises"
  THEN except_Exception([info EXCEPT !.returned = outcome], "handler raised")
  ELSE next_message([info EXCEPT !.returned = outcome])

\* What follows the awaited handler: it returned a response, returned an
\* empty payload or None (`if response_data` is false for both), or raised.
after_handler(info, outcome) ==
  LET came_to == [info EXCEPT !.returned = outcome] IN
  IF outcome = "response" THEN send_in_try(came_to, handler_response(info.frame))
  ELSE IF outcome \in {"empty", "none"} THEN next_message(came_to)
  ELSE except_Exception(came_to, "handler raised")

\* Mutant: after the close acknowledgment the loop goes on.
after_send_close_continues(info, active, outcome) ==
  Result(next_message([info EXCEPT !.replies = Append(@, info.pending)]),
         [active EXCEPT ![info.frame.channel_id] = None])

\* Mutant: a failed close acknowledgment is handled like any failed send in
\* the loop body, the channel staying registered.
after_send_close_failure_reported(info, active, outcome) ==
  IF outcome = "ok"
  THEN handler_ends([info EXCEPT !.replies = Append(@, info.pending)],
                    [active EXCEPT ![info.frame.channel_id] = None],
                    "channel_close")
  ELSE Result(except_Exception([info EXCEPT !.send_failed = TRUE], "send raised"),
              active)

\* Mutant: a failed send is reported by another send, wherever it failed.
after_send_error_retried(info, active, outcome) ==
  IF outcome = "ok"
  THEN Result(next_message([info EXCEPT !.replies = Append(@, info.pending)]),
              active)
  ELSE Result(except_Exception([info EXCEPT !.send_failed = TRUE], "send raised"),
              active)

\* What follows an awaited websocket.send: it went out ("ok"), raised
\* ("raises"), or raised ConnectionClosed ("closed").
after_send(info, active, outcome) ==
  LET sent == IF outcome = "ok"
              THEN [info EXCEPT !.replies = Append(@, info.pending)]
              ELSE IF outcome = "closed"
              THEN [info EXCEPT !.transport = "closed", !.send_failed = TRUE]
              ELSE [info EXCEPT !.send_failed = TRUE]
  IN
  IF info.site = "close"
  THEN handler_ends(sent, [active EXCEPT ![info.frame.channel_id] = None],
                    "channel_close")
  ELSE IF outcome = "ok"
  THEN Result(next_message(sent), active)
  ELSE IF info.site = "try"
  THEN Result(except_Exception(sent, IF outcome = "closed" THEN "ConnectionClosed"
                                     ELSE "send raised"),
              active)
  ELSE IF outcome = "closed"
  THEN handler_ends(sent, active, "transport_closed")
  ELSE handler_ends(sent, active, "handler_error")

SendOutcomes == {"ok", "raises", "closed"}

HandlerOutcomes == {"response", "empty", "none", "raises"}

(* ------------------------------- actions ------------------------------- *)

UsedIds == { t.claims.jti : t \in issued }

\* uuid4(): an id not drawn before ("" once the pool is used up).
uuid4 == IF TokenIds \ UsedIds = {} THEN ""
         ELSE CHOOSE j \in TokenIds \ UsedIds : TRUE

\* No call's outcome is waiting for its caller.
Idle == call.op = "none"

\* Some issued token names a pair that `reg` gives no mutual permission.
PairLapsed(reg, tokens) ==
  \E t \in tokens :
    ~_verify_agent_permissions(reg, t.claims.sub, t.claims.target, FALSE).result

Init ==
  /\ registry = [a \in AgentIds |-> NoAgent]
  /\ now = 0
  /\ issued = {}
  /\ call = NoArgs
  /\ last = NoCall
  /\ lapsed = FALSE
  /\ message_handlers = {}
  /\ active_connections = [c \in ChannelIds |-> None]
  /\ connection = [k \in ConnIds |-> NewConnection]
  /\ peer_closed = {}
  /\ permission_query = NoQuery
  /\ thread = [p \in Callers |-> NoThread]

\* AgentService: an agent is registered under its provider, with no grants.
RegisterAgent(a) ==
  /\ Idle
  /\ ~registry[a].present
  /\ registry' = [registry EXCEPT ![a] =
                    [present |-> TRUE, provider_id |-> ProviderOf(a), grants |-> {}]]
  /\ UNCHANGED << now, issued, call, last, lapsed >>
  /\ UNCHANGED << ws_vars, direct_vars >>

\* AgentService: an agent is removed, its grants with it.
DeleteAgent(a) ==
  /\ Idle
  /\ registry[a].present
  /\ registry' = [registry EXCEPT ![a] = NoAgent]
  /\ lapsed' = (lapsed \/ PairLapsed(registry', issued))
  /\ UNCHANGED << now, issued, call, last >>
  /\ UNCHANGED << ws_vars, direct_vars >>

\* AgentService: a grant is added to an agent's permissions.
GrantPermission(a, p) ==
  /\ Idle
  /\ registry[a].present
  /\ p \notin registry[a].grants
  /\ registry' = [registry EXCEPT ![a].grants = @ \cup {p}]
  /\ UNCHANGED << now, issued, call, last, lapsed >>
  /\ UNCHANGED << ws_vars, direct_vars >>

\* AgentService: a grant is removed from an agent's permissions.
RevokePermission(a, p) ==
  /\ Idle
  /\ p \in registry[a].grants
  /\ registry' = [registry EXCEPT ![a].grants = @ \ {p}]
  /\ lapsed' = (lapsed \/ PairLapsed(registry', issued))
  /\ UNCHANGED << now, issued, call, last >>
  /\ UNCHANGED << ws_vars, direct_vars >>

\* The wall clock advances.
Tick ==
  /\ Idle
  /\ now < MaxClock
  /\ now' = now + 1
  /\ UNCHANGED << registry, issued, call, last, lapsed >>
  /\ UNCHANGED << ws_vars, direct_vars >>

\* The wall clock is set back (datetime.now() is not monotonic).
ClockStepBack ==
  /\ Idle
  /\ now > 0
  /\ now' = now - 1
  /\ UNCHANGED << registry, issued, call, last, lapsed >>
  /\ UNCHANGED << ws_vars, direct_vars >>

\* A call of create_interaction_token, start to end.
CreateInteractionToken ==
  /\ Idle
  /\ \E pair \in CreatePairs, dpop_proof \in CreateProofs,
        req \in CreateRequests, expires_delta \in ExpiresDeltas,
        fault \in CreateFaults :
       LET agent_id == pair[1]
           target_agent_id == pair[2]
           out == create_interaction_token(registry, now, uuid4, agent_id,
                                           target_agent_id, dpop_proof, req.key,
                                           req.method, req.url, expires_delta, fault)
       IN /\ out.ok => uuid4 # ""
          /\ last' = out
          /\ call' = Args("create", agent_id, target_agent_id, NoToken, "", dpop_proof,
                          req.key, req.method, req.url, expires_delta, fault)
          /\ issued' = IF out.ok THEN issued \cup {out.token} ELSE issued
          /\ UNCHANGED << registry, now, lapsed >>
  /\ UNCHANGED << ws_vars, direct_vars >>

\* A call of verify_token, start to end.
VerifyToken ==
  /\ Idle
  /\ \E token \in Presented(issued), expected_target \in AgentIds \cup {""},
        req \in VerifyRequests, fault \in VerifyFaults :
       /\ last' = verify_token(registry, now, token, expected_target, req.dpop_proof,
                               req.method, req.url, fault)
       /\ call' = Args("verify", "", "", token, expected_target, req.dpop_proof, NoKey,
                       req.method, req.url, NoDelta, fault)
       /\ UNCHANGED << registry, now, issued, lapsed >>
  /\ UNCHANGED << ws_vars, direct_vars >>

\* The caller takes the outcome of its call.
Return ==
  /\ ~Idle
  /\ call' = NoArgs
  /\ last' = NoCall
  /\ UNCHANGED << registry, now, issued, lapsed >>
  /\ UNCHANGED << ws_vars, direct_vars >>

Next ==
  \/ \E a \in AgentIds : RegisterAgent(a)
  \/ \E a \in AgentIds : DeleteAgent(a)
  \/ \E a \in AgentIds, p \in PermUniverse : GrantPermission(a, p)
  \/ \E a \in AgentIds, p \in PermUniverse : RevokePermission(a, p)
  \/ Tick
  \/ ClockStepBack
  \/ CreateInteractionToken
  \/ VerifyToken
  \/ Return

Spec == Init /\ [][Next]_vars

(* ------------- _check_agent_has_permission, called directly ------------ *)

\* Any permission list, target agent id and target provider id.
InitQuery ==
  /\ registry = [a \in AgentIds |-> NoAgent]
  /\ now = 0
  /\ issued = {}
  /\ call = NoArgs
  /\ last = NoCall
  /\ lapsed = FALSE
  /\ message_handlers = {}
  /\ active_connections = [c \in ChannelIds |-> None]
  /\ connection = [k \in ConnIds |-> NewConnection]
  /\ peer_closed = {}
  /\ permission_query \in
       { Query(agent_permissions, target_agent_id, target_provider_id, FALSE, FALSE) :
           agent_permissions \in QueryLists, target_agent_id \in QueryIds,
           target_provider_id \in QueryIds }
  /\ thread = [p \in Callers |-> NoThread]

\* _check_agent_has_permission runs on the arguments and returns.
CheckAgentHasPermission ==
  /\ ~permission_query.returned
  /\ permission_query' =
       [permission_query EXCEPT
          !.returned = TRUE,
          !.result = _check_agent_has_permission(permission_query.agent_permissions,
                                                 permission_query.target_agent_id,
                                                 permission_query.target_provider_id)]
  /\ UNCHANGED << token_vars, ws_vars, thread >>

NextQuery == CheckAgentHasPermission

SpecQuery == InitQuery /\ [][NextQuery]_vars

(* ------------- TokenService calls running side by side ----------------- *)
(* Each call is taken apart at its reads of what lies outside it: the     *)
(* agent lookups, the clock, uuid4().  Steps of different calls interleave *)
(* freely; the clock moves at any time; grants change between calls.       *)

\* What a caller passes to create_interaction_token here: a proof that fits
\* the request or does not, the default lifetime, AgentService answering or
\* raising.
ThreadCreates ==
  { Args("create", "a1", "a2", NoToken, "", dpop_proof, req.key, req.method,
         req.url, NoDelta, fault) :
      dpop_proof \in CreateProofs,
      req \in { r \in CreateRequests : r.key = Key("k1") /\ r.url = "u1" },
      fault \in {"none", "get_agent"} }

\* What a caller passes to verify_token here: an issued token, no expected
\* target, with or without a proof.
ThreadVerifies(tokens) ==
  { Args("verify", "", "", token, "", req.dpop_proof, NoKey,
         req.method, req.url, NoDelta, "none") :
      token \in tokens,
      req \in { r \in VerifyRequests :
                  r.dpop_proof \in {NoProof} \cup CreateProofs /\ r.method # "GET"
                  /\ (r.dpop_proof = NoProof \/ r.url = "u1") } }

\* The second caller sends the usual: a create that should pass, a verify
\* with a proof.
ThreadArgs(p, tokens) ==
  IF p = "t1" THEN ThreadCreates \cup ThreadVerifies(tokens)
  ELSE { c \in ThreadCreates : c.fault = "none" /\ c.method = "POST" }
       \cup { c \in ThreadVerifies(tokens) : c.dpop_proof # NoProof }

\* No call is between its first step and its last.
NoneRunning == \A p \in Callers : thread[p].pc \in {"idle", "done"}

\* uuid4() for these calls.
IssueId == IF IssueIds \ UsedIds = {} THEN ""
           ELSE CHOOSE j \in IssueIds \ UsedIds : TRUE

\* Mutant: the verdict of the permission check is kept on the service, where
\* the verdict of another call's check is found as well.
permitted_shared(threads, p) == \E q \in Callers : threads[q].permitted

\* `if not self._verify_agent_permissions(...)`: the verdict the call tests
\* is the value its own check returned.
permitted(threads, p) == threads[p].permitted

\* Both agents are registered and hold grants toward each other.
InitCalls ==
  /\ registry =
       [a \in AgentIds |->
          [present |-> TRUE, provider_id |-> ProviderOf(a),
           grants |-> IF a = "a1" THEN {PermOrder[2]} ELSE {PermOrder[1]}]]
  /\ now = 0
  /\ issued = {}
  /\ call = NoArgs
  /\ last = NoCall
  /\ lapsed = FALSE
  /\ message_handlers = {}
  /\ active_connections = [c \in ChannelIds |-> None]
  /\ connection = [k \in ConnIds |-> NewConnection]
  /\ peer_closed = {}
  /\ permission_query = NoQuery
  /\ thread = [p \in Callers |-> NoThread]

\* A caller enters create_interaction_token or verify_token.
BeginCall(p) ==
  /\ thread[p].pc = "idle"
  /\ \E args \in ThreadArgs(p, issued) :
       thread' = [thread EXCEPT ![p] =
                    Thread(IF args.op = "create" THEN "permission" ELSE "decode",
                           args, registry, 0, FALSE, NoClaims, << >>, NoCall)]
  /\ UNCHANGED << token_vars, ws_vars, permission_query >>

\* create_interaction_token: _verify_agent_permissions runs and returns.
CreatePermission(p) ==
  /\ thread[p].pc = "permission"
  /\ LET c == thread[p].args
         perm == create_permission_step(registry, c.agent_id, c.target_agent_id,
                                        c.fault)
     IN thread' = [thread EXCEPT ![p].pc = "proof",
                                 ![p].permitted = perm.result,
                                 ![p].events = perm.events]
  /\ UNCHANGED << token_vars, ws_vars, permission_query >>

\* create_interaction_token: the verdict is tested, then the proof verified.
CreateProof(p) ==
  /\ thread[p].pc = "proof"
  /\ LET c == thread[p].args
         proof == create_proof_step(c.dpop_proof, c.dpop_public_key, c.method,
                                    c.url, c.fault)
         failed(cause, dpop_calls) ==
           [thread EXCEPT ![p].pc = "done",
                          ![p].out = create_failed(cause, c.agent_id,
                                                   c.target_agent_id, dpop_calls,
                                                   thread[p].events)]
     IN thread' =
          IF ~permitted(thread, p)
          THEN failed(Msg("Insufficient permissions between agents",
                          c.agent_id, c.target_agent_id), 0)
          ELSE IF proof.raised THEN failed(Msg("verify_proof raised", "", ""), 1)
          ELSE IF ~proof.valid THEN failed(Msg("Invalid DPoP proof", "", ""), 1)
          ELSE [thread EXCEPT ![p].pc = "sign"]
  /\ UNCHANGED << token_vars, ws_vars, permission_query >>

\* create_interaction_token: the clock is read, the id drawn, the token
\* signed and returned.
CreateSign(p) ==
  /\ thread[p].pc = "sign"
  /\ IssueId # ""
  /\ LET c == thread[p].args
         out == create_signed(now, IssueId, c.agent_id, c.target_agent_id,
                              c.dpop_proof, c.dpop_public_key, c.expires_delta,
                              c.fault, thread[p].events)
     IN /\ thread' = [thread EXCEPT ![p].pc = "done", ![p].now = now,
                                    ![p].out = out]
        /\ issued' = IF out.ok THEN issued \cup {out.token} ELSE issued
  /\ UNCHANGED << registry, now, call, last, lapsed >>
  /\ UNCHANGED << ws_vars, permission_query >>

\* verify_token: jwt.decode reads the clock; the target is compared.
VerifyDecode(p) ==
  /\ thread[p].pc = "decode"
  /\ LET c == thread[p].args
         decoded == jwt_decode(c.token, REGISTRY_PUBLIC_KEY, now)
         failed(error, cause) ==
           [thread EXCEPT ![p].pc = "done", ![p].now = now,
                          ![p].out = verify_failed(error, cause, 0, "none", << >>)]
     IN thread' =
          IF ~decoded.ok
          THEN failed("Invalid token", Msg(decoded.error, "", ""))
          ELSE IF target_mismatch(c.expected_target, decoded.payload)
          THEN failed("Token verification failed",
                      Msg("Target agent ID mismatch", "", ""))
          ELSE [thread EXCEPT ![p].pc = "lookup", ![p].now = now,
                              ![p].payload = decoded.payload]
  /\ UNCHANGED << token_vars, ws_vars, permission_query >>

\* verify_token: the agents are looked up, for the DPoP step when a proof is
\* supplied and for the permission check, and the call returns.
VerifyLookup(p) ==
  /\ thread[p].pc = "lookup"
  /\ LET c == thread[p].args
         out == IF dpop_supplied(c.dpop_proof, c.method, c.url)
                THEN verify_dpop(registry, thread[p].payload, c.dpop_proof,
                                 c.method, c.url, c.fault)
                ELSE verify_finish(registry, thread[p].payload, c.fault, 0,
                                   "none", << >>)
     IN thread' = [thread EXCEPT ![p].pc = "done", ![p].out = out]
  /\ UNCHANGED << token_vars, ws_vars, permission_query >>

\* The caller takes what its call returned or raised.
ReturnCall(p) ==
  /\ thread[p].pc = "done"
  /\ thread' = [thread EXCEPT ![p] = NoThread]
  /\ UNCHANGED << token_vars, ws_vars, permission_query >>

\* AgentService, between calls: a1's grant toward a2's provider is revoked,
\* or granted again.
ChangeGrant ==
  /\ NoneRunning
  /\ \/ RevokePermission("a1", PermOrder[2])
     \/ GrantPermission("a1", PermOrder[2])

NextCalls ==
  \/ \E p \in Callers : BeginCall(p)
  \/ \E p \in Callers : CreatePermission(p)
  \/ \E p \in Callers : CreateProof(p)
  \/ \E p \in Callers : CreateSign(p)
  \/ \E p \in Callers : VerifyDecode(p)
  \/ \E p \in Callers : VerifyLookup(p)
  \/ \E p \in Callers : ReturnCall(p)
  \/ ChangeGrant
  \/ Tick
  \/ ClockStepBack

SpecCalls == InitCalls /\ [][NextCalls]_vars

(* -------------------- WebSocketHandler: actions ------------------------ *)

\* register_handler(message_type, handler), called by the host before it
\* serves connections.
RegisterHandler(message_type) ==
  /\ message_type \notin message_handlers
  /\ \A k \in ConnIds : connection[k].pc = "new"
  /\ message_handlers' = message_handlers \cup {message_type}
  /\ UNCHANGED << active_connections, connection, peer_closed >>
  /\ UNCHANGED << token_vars, direct_vars >>

\* A connection arrives: handle_connection runs up to the verifier.
Connect(k) ==
  /\ connection[k].pc = "new"
  /\ \E auth_header \in Headers :
       connection' = [connection EXCEPT ![k] = authenticate(@, auth_header)]
  /\ UNCHANGED << message_handlers, active_connections, peer_closed >>
  /\ UNCHANGED << token_vars, direct_vars >>

\* The verifier answers.
Verify(k) ==
  /\ connection[k].pc = "verifying"
  /\ \E outcome \in VerifierOutcomes :
       connection' = [connection EXCEPT ![k] = after_verify(@, outcome)]
  /\ UNCHANGED << message_handlers, active_connections, peer_closed >>
  /\ UNCHANGED << token_vars, direct_vars >>

\* The loop takes the next frame and runs to its first await.
Receive(k) ==
  /\ connection[k].pc = "receiving"
  /\ k \notin peer_closed
  /\ \E message_data \in FramesOf(k) :
       LET r == on_message(k, connection[k], active_connections,
                           message_handlers, message_data)
       IN /\ connection' = [connection EXCEPT ![k] = r.info]
          /\ active_connections' = r.active
  /\ UNCHANGED << message_handlers, peer_closed >>
  /\ UNCHANGED << token_vars, direct_vars >>

\* The registered handler finishes.
Handle(k) ==
  /\ connection[k].pc = "handling"
  /\ \E outcome \in HandlerOutcomes :
       connection' = [connection EXCEPT ![k] = after_handler(@, outcome)]
  /\ UNCHANGED << message_handlers, active_connections, peer_closed >>
  /\ UNCHANGED << token_vars, direct_vars >>

\* The awaited websocket.send finishes: it raises ConnectionClosed when the
\* peer has closed the transport, and only then.
Send(k) ==
  /\ connection[k].pc = "sending"
  /\ \E outcome \in SendOutcomes :
       /\ outcome = "closed" <=> k \in peer_closed
       /\ LET r == after_send(connection[k], active_connections, outcome)
          IN /\ connection' = [connection EXCEPT ![k] = r.info]
             /\ active_connections' = r.active
  /\ UNCHANGED << message_handlers, peer_closed >>
  /\ UNCHANGED << token_vars, direct_vars >>

\* The loop waits for a frame on a transport the peer closes, or has
\* closed: `async for` ends or raises ConnectionClosed.
TransportClose(k) ==
  /\ connection[k].pc = "receiving"
  /\ LET r == handler_ends([connection[k] EXCEPT !.transport = "closed"],
                           active_connections, "transport_closed")
     IN /\ connection' = [connection EXCEPT ![k] = r.info]
        /\ active_connections' = r.active
  /\ peer_closed' = peer_closed \cup {k}
  /\ UNCHANGED message_handlers
  /\ UNCHANGED << token_vars, direct_vars >>

\* The peer closes the transport while the handler is not reading it: it
\* awaits a registered handler or a send.
PeerClose(k) ==
  /\ connection[k].pc \in {"handling", "sending"}
  /\ k \notin peer_closed
  /\ peer_closed' = peer_closed \cup {k}
  /\ UNCHANGED << message_handlers, active_connections, connection >>
  /\ UNCHANGED << token_vars, direct_vars >>

NextWS ==
  \/ \E message_type \in HandlerTypes : RegisterHandler(message_type)
  \/ \E k \in ConnIds : Connect(k)
  \/ \E k \in ConnIds : Verify(k)
  \/ \E k \in ConnIds : Receive(k)
  \/ \E k \in ConnIds : Handle(k)
  \/ \E k \in ConnIds : Send(k)
  \/ \E k \in ConnIds : TransportClose(k)
  \/ \E k \in ConnIds : PeerClose(k)

SpecWS == Init /\ [][NextWS]_vars

\* The read of a transport the peer has closed returns: the loop ends.
LoopEnds(k) == k \in peer_closed /\ TransportClose(k)

\* Every await of a connection's coroutine is resumed once it can be: an
\* awaited send completes or raises, an awaited handler returns or raises,
\* and a read on a closed transport ends the loop.
Fairness ==
  \A k \in ConnIds :
    /\ WF_vars(Send(k))
    /\ WF_vars(Handle(k))
    /\ WF_vars(LoopEnds(k))

\* The host has registered its application handler and serves connections.
InitServing ==
  /\ registry = [a \in AgentIds |-> NoAgent]
  /\ now = 0
  /\ issued = {}
  /\ call = NoArgs
  /\ last = NoCall
  /\ lapsed = FALSE
  /\ message_handlers = {APP_TYPE}
  /\ active_connections = [c \in ChannelIds |-> None]
  /\ connection = [k \in ConnIds |-> NewConnection]
  /\ peer_closed = {}
  /\ permission_query = NoQuery
  /\ thread = [p \in Callers |-> NoThread]

NextServing ==
  \/ \E k \in ConnIds : Connect(k)
  \/ \E k \in ConnIds : Verify(k)
  \/ \E k \in ConnIds : Receive(k)
  \/ \E k \in ConnIds : Handle(k)
  \/ \E k \in ConnIds : Send(k)
  \/ \E k \in ConnIds : TransportClose(k)
  \/ \E k \in ConnIds : PeerClose(k)

SpecWSLive == InitServing /\ [][NextServing]_vars /\ Fairness

(* ---------------------------------------------------------------------- *)
(* Properties.  A call's arguments and outcome stay in `call` and `last`   *)
(* until Return, and nothing else moves meanwhile: a state with            *)
(* call.op # "none" shows the registry and the clock the call ran against. *)
(* ---------------------------------------------------------------------- *)

Creating == call.op = "create"

Verifying == call.op = "verify"

Present(a) == a \in DOMAIN registry /\ registry[a].present

\* a holds a grant reaching b: ALLOW_AGENT for b's id, or ALLOW_PROVIDER for
\* b's provider.
Reaches(a, b) ==
  /\ Present(a) /\ Present(b)
  /\ \E p \in registry[a].grants :
       \/ p.type = ALLOW_AGENT /\ p.target_id = b
       \/ p.type = ALLOW_PROVIDER /\ p.target_id = registry[b].provider_id

Mutual(a, b) == Reaches(a, b) /\ Reaches(b, a)

PermissionDenied(a, b) == Msg("Insufficient permissions between agents", a, b)

InvalidProof == Msg("Invalid DPoP proof", "", "")

PermissionRevoked == Msg("Agent permissions have been revoked", "", "")

TargetMismatch == Msg("Target agent ID mismatch", "", "")

\* The proof supplied to the call is one for the supplied key, method and URL.
ProofValid(c) ==
  /\ c.dpop_proof.signer = c.dpop_public_key.body
  /\ c.dpop_proof.htm = c.method
  /\ c.dpop_proof.htu = c.url

\* The clock is inside the token's validity window, nbf up to exp.
InWindow(t) ==
  /\ t.claims.nbf * TicksPerSecond <= now
  /\ now < t.claims.exp * TicksPerSecond

\* No expected_target was given, or the one given is the token's target.
TargetOK(c) ==
  c.expected_target = "" \/ c.expected_target = c.token.claims.target

\* The verifying party's DPoP step does not run: proof, method or url missing.
DPoPSkipped(c) == c.dpop_proof = NoProof \/ c.method = "" \/ c.url = ""

\* The verifying party's DPoP step runs and accepts the proof.
DPoPAccepted(c) ==
  /\ ~DPoPSkipped(c)
  /\ c.fault \notin {"get_agent", "verify_proof"}
  /\ Present(c.token.claims.target)
  /\ c.dpop_proof.htm = c.method
  /\ c.dpop_proof.htu = c.url
  /\ c.dpop_proof.signer =
       IF c.fault = "decrypt" THEN c.dpop_proof.jwk
       ELSE c.token.claims.dpop_public_key.ciphertext_of.body

Count(events, name) ==
  Cardinality({ i \in DOMAIN events : events[i].name = name })

\* C1: create_interaction_token returns a token only if, at the time of the
\* call, the requester holds a grant reaching the target and the target holds
\* a grant reaching the requester; when either direction is missing the call
\* fails with the insufficient-permissions cause, whatever the DPoP proof is.
C1_MutualPermissionGate ==
  Creating =>
    LET a == call.agent_id
        b == call.target_agent_id
    IN /\ last.ok => Mutual(a, b)
       /\ (~Reaches(a, b) \/ ~Reaches(b, a)) =>
            /\ ~last.ok
            /\ last.token = NoToken
            /\ last.error = "Failed to create token"
            /\ last.cause = PermissionDenied(a, b)

\* C1 witness: both agents exist, only the requester's grant is there, the
\* proof is valid, and the call was refused for the permissions.
C1_Witness ==
  /\ Creating
  /\ Reaches(call.agent_id, call.target_agent_id)
  /\ ~Reaches(call.target_agent_id, call.agent_id)
  /\ Present(call.target_agent_id)
  /\ ProofValid(call) /\ call.fault = "none"
  /\ last.cause = PermissionDenied(call.agent_id, call.target_agent_id)

\* C2: verify_token on an issued, unexpired token whose pair no longer has
\* mutual permission returns no claims; when the call gets as far as the
\* permission step (target accepted, DPoP step skipped or passed) it fails
\* with "Agent permissions have been revoked".
C2_RevokedAtVerify ==
  ( /\ Verifying
    /\ call.token \in issued
    /\ InWindow(call.token)
    /\ ~Mutual(call.token.claims.sub, call.token.claims.target) ) =>
      /\ ~last.ok
      /\ last.payload = NoClaims
      /\ (TargetOK(call) /\ (DPoPSkipped(call) \/ DPoPAccepted(call))) =>
           /\ last.error = "Token verification failed"
           /\ last.cause = PermissionRevoked

\* C2 witness: a token for (A, B) is verified in its window after B's grant
\* toward A went away while A's is still there, and the call fails as revoked.
C2_Witness ==
  /\ Verifying
  /\ call.token \in issued
  /\ InWindow(call.token)
  /\ Reaches(call.token.claims.sub, call.token.claims.target)
  /\ ~Reaches(call.token.claims.target, call.token.claims.sub)
  /\ Present(call.token.claims.target)
  /\ last.cause = PermissionRevoked

\* C3: round trip.  A token returned by create_interaction_token(A, B, ...)
\* carries sub = A, target = B, iss = "registry", typ = "interaction_token",
\* iat = nbf = the issue time in seconds and the drawn jti, under the
\* registry's signature; verify_token on an issued token inside its window,
\* with no expected_target or the token's own target, with mutual permission
\* holding (and the optional DPoP step skipped or passing), succeeds and
\* returns exactly the signed claims.
C3_RoundTrip ==
  /\ (Creating /\ last.ok) =>
       /\ last.token \in issued
       /\ last.token = jwt_encode(last.token.claims, REGISTRY_PRIVATE_KEY, "RS256")
       /\ last.token.claims.sub = call.agent_id
       /\ last.token.claims.target = call.target_agent_id
       /\ last.token.claims.iss = "registry"
       /\ last.token.claims.typ = "interaction_token"
       /\ last.token.claims.jti \in TokenIds
       /\ last.token.claims.iat = now \div TicksPerSecond
       /\ last.token.claims.nbf = now \div TicksPerSecond
  /\ ( /\ Verifying
       /\ call.token \in issued
       /\ InWindow(call.token)
       /\ TargetOK(call)
       /\ Mutual(call.token.claims.sub, call.token.claims.target)
       /\ call.fault # "get_agent"
       /\ DPoPSkipped(call) \/ DPoPAccepted(call) ) =>
         /\ last.ok
         /\ last.payload = call.token.claims

\* C3 witness: an issued token was verified with expected_target = its target
\* and its claims came back.
C3_Witness ==
  /\ Verifying
  /\ call.token \in issued
  /\ call.expected_target = call.token.claims.target
  /\ last.ok
  /\ last.payload = call.token.claims
  /\ last.payload.iss = "registry"

\* C4: verify_token on a string that is not exactly a token the registry
\* signed fails with "Invalid token" and returns no claims, whatever the
\* permissions, the clock and the other arguments are.
C4_UnsignedIsInvalid ==
  (Verifying /\ call.token \notin issued) =>
    /\ ~last.ok
    /\ last.error = "Invalid token"
    /\ last.payload = NoClaims

\* C4 witness: an issued token with its payload altered under the registry's
\* old signature was presented while the pair it names had mutual permission.
C4_Witness ==
  /\ Verifying
  /\ call.token \notin issued
  /\ call.token.wellformed
  /\ call.token.sig.pair = REGISTRY_PRIVATE_KEY.pair
  /\ \E t \in issued : t.sig = call.token.sig /\ Mutual(t.claims.sub, t.claims.target)
  /\ last.error = "Invalid token"

\* C5: an issued token verified at a clock value later than its exp claim, or
\* earlier than its nbf claim, fails with "Invalid token" and returns no
\* claims, whatever the permissions are.
C5_ExpiredIsInvalid ==
  ( /\ Verifying
    /\ call.token \in issued
    /\ \/ now > call.token.claims.exp * TicksPerSecond
       \/ now < call.token.claims.nbf * TicksPerSecond ) =>
      /\ ~last.ok
      /\ last.error = "Invalid token"
      /\ last.payload = NoClaims

\* C5 witness: a correctly signed token whose pair still has mutual permission
\* was verified after its exp and refused as expired.
C5_Witness ==
  /\ Verifying
  /\ call.token \in issued
  /\ now > call.token.claims.exp * TicksPerSecond
  /\ Mutual(call.token.claims.sub, call.token.claims.target)
  /\ last.error = "Invalid token"
  /\ last.cause = Msg("Signature has expired", "", "")

\* C6: verify_token on an issued token inside its window with an
\* expected_target other than the token's target fails with "Target agent ID
\* mismatch" and returns no claims, also when mutual permission holds.
C6_TargetMismatch ==
  ( /\ Verifying
    /\ call.token \in issued
    /\ InWindow(call.token)
    /\ call.expected_target # ""
    /\ call.expected_target # call.token.claims.target ) =>
      /\ ~last.ok
      /\ last.error = "Token verification failed"
      /\ last.cause = TargetMismatch
      /\ last.payload = NoClaims

\* C6 witness: valid signature, inside the window, mutual permission holds,
\* the expected target is another agent, and the call failed on the target.
C6_Witness ==
  /\ Verifying
  /\ call.token \in issued
  /\ InWindow(call.token)
  /\ Mutual(call.token.claims.sub, call.token.claims.target)
  /\ call.expected_target = call.token.claims.sub
  /\ last.cause = TargetMismatch

\* The cause create_interaction_token's steps give for a call, in the order
\* permission, proof, hash, encrypt, sign (NoMsg when no step fails).
OriginalCause(c) ==
  IF c.fault = "get_agent" \/ ~Mutual(c.agent_id, c.target_agent_id)
  THEN PermissionDenied(c.agent_id, c.target_agent_id)
  ELSE IF c.fault = "verify_proof" THEN Msg("verify_proof raised", "", "")
  ELSE IF ~ProofValid(c) THEN InvalidProof
  ELSE IF c.fault = "hash" THEN Msg("hash_dpop_proof raised", "", "")
  ELSE IF c.fault = "encrypt" THEN Msg("encrypt_field raised", "", "")
  ELSE IF c.fault = "sign" THEN Msg("jwt.encode raised", "", "")
  ELSE NoMsg

C8_PermissionBeforeProof ==
  Creating =>
    IF call.fault = "get_agent" \/ ~Mutual(call.agent_id, call.target_agent_id)
    THEN /\ last.dpop_calls = 0
         /\ last.cause = PermissionDenied(call.agent_id, call.target_agent_id)
    ELSE last.dpop_calls = 1

\* C8 witness: neither the permission nor the proof is good, and the call
\* reported the permission without invoking the verifier.
C8_Witness ==
  /\ Creating
  /\ ~Mutual(call.agent_id, call.target_agent_id)
  /\ Present(call.agent_id) /\ Present(call.target_agent_id)
  /\ ~ProofValid(call)
  /\ last.dpop_calls = 0
  /\ last.cause = PermissionDenied(call.agent_id, call.target_agent_id)

\* C9: create_interaction_token returns a token only if the supplied proof
\* verifies for exactly the supplied key, method and URL; when the DPoP step
\* is reached and the proof does not verify, the call fails with "Invalid DPoP
\* proof" and signs nothing; every issued token embeds the hash of a proof and
\* the encryption of the key that proof was made with.
C9_ProofGate ==
  /\ Creating =>
       /\ last.ok => ProofValid(call)
       /\ ( /\ Mutual(call.agent_id, call.target_agent_id)
            /\ call.fault \notin {"get_agent", "verify_proof"}
            /\ ~ProofValid(call) ) =>
              /\ ~last.ok
              /\ last.cause = InvalidProof
              /\ last.token = NoToken
  /\ \A t \in issued :
       /\ t.claims.dpop_hash.sha256_of \in DPoPProofs
       /\ t.claims.dpop_hash.sha256_of.signer =
            decrypt_field(t.claims.dpop_public_key).body

\* C9 witness: the pair is authorized and the proof was made for another
\* method, URL or key than the ones supplied; the call failed on the proof.
C9_Witness ==
  /\ Creating
  /\ Mutual(call.agent_id, call.target_agent_id)
  /\ call.fault = "none"
  /\ ~ProofValid(call)
  /\ call.dpop_proof.signer = call.dpop_public_key.body
  /\ last.cause = InvalidProof

DPoPVerificationFailed ==
  Msg("Could not verify DPoP proof", "Invalid DPoP proof from verifying agent", "")

\* The call decodes the token, accepts its target and finds the verifying
\* agent: it goes on to choose the key for the supplied proof.
ChoosesKey(c) ==
  /\ c.token \in issued
  /\ InWindow(c.token)
  /\ TargetOK(c)
  /\ ~DPoPSkipped(c)
  /\ c.fault # "get_agent"
  /\ Present(c.token.claims.target)

\* The proof is one by the holder of `body` for the call's method and URL.
ValidAgainst(c, body) ==
  /\ c.dpop_proof.signer = body
  /\ c.dpop_proof.htm = c.method
  /\ c.dpop_proof.htu = c.url

\* C11: when verify_token checks a supplied proof and the token's
\* dpop_public_key claim decrypts, the proof is judged by that key alone,
\* whatever key its JWK header carries; the JWK header is the key only when
\* the claim is absent or its decryption fails; a proof the chosen key does
\* not validate for the method and URL fails the call with the DPoP
\* verification cause and no claims.
C11_TokenKeyFirst ==
  (Verifying /\ ChoosesKey(call)) =>
    LET claim == call.token.claims.dpop_public_key
        decrypts == claim # encrypt_field(NoKey) /\ call.fault # "decrypt"
        chosen == IF decrypts THEN decrypt_field(claim).body
                  ELSE call.dpop_proof.jwk
    IN /\ decrypts =>
            /\ last.key_source = "token"
            /\ Count(last.events, "dpop_verification_info") = 1
       /\ last.key_source = "jwk" => ~decrypts
       /\ (call.fault # "verify_proof" /\ chosen # NoJwk) =>
            (last.cause = DPoPVerificationFailed <=> ~ValidAgainst(call, chosen))
       /\ last.cause = DPoPVerificationFailed =>
            /\ ~last.ok
            /\ last.error = "Token verification failed"
            /\ last.payload = NoClaims
            /\ last.dpop_calls = 1

\* A proof signed by the very key its JWK header carries is rejected, the
\* token's key being another one.
C11_Witness ==
  /\ Verifying
  /\ ChoosesKey(call)
  /\ call.fault = "none"
  /\ call.dpop_proof.signer = "k2"
  /\ call.dpop_proof.jwk = "k2"
  /\ decrypt_field(call.token.claims.dpop_public_key).body = "k1"
  /\ last.key_source = "token"
  /\ last.cause = DPoPVerificationFailed


\* The cause is one the DPoP step of verify_token raises for the proof.
DPoPKind(cause) == cause.text = "Could not verify DPoP proof"

\* The token is one the registry signed, presented inside its window.
ValidToken(c) == c.token \in issued /\ InWindow(c.token)

\* The key the DPoP step of the call checks the proof against (NoJwk: none).
ChosenKey(c) ==
  IF c.fault # "decrypt" /\ c.token.claims.dpop_public_key # encrypt_field(NoKey)
  THEN decrypt_field(c.token.claims.dpop_public_key).body
  ELSE c.dpop_proof.jwk

\* The supplied proof does not pass the check against the chosen key.
BadProof(c) ==
  \/ ChosenKey(c) = NoJwk
  \/ ~ValidAgainst(c, ChosenKey(c))
  \/ c.fault = "verify_proof"

\* C21: verify_token checks signature/expiry, then the expected target, then
\* the verifier's DPoP proof, then live mutual permission, and fails with the
\* kind of the first check that fails: a token that does not decode gives
\* "Invalid token" whatever the target is; a valid token with a wrong target
\* gives the target mismatch whatever the permissions are; a valid token with
\* an accepted target and a bad proof gives the DPoP failure whatever the
\* permissions are; only a call passing all three is decided by permission.
C21_ChecksInOrder ==
  Verifying =>
    /\ ~ValidToken(call) =>
         /\ ~last.ok
         /\ last.error = "Invalid token"
         /\ last.cause # TargetMismatch
    /\ (ValidToken(call) /\ ~TargetOK(call)) =>
         /\ ~last.ok
         /\ last.error = "Token verification failed"
         /\ last.cause = TargetMismatch
    /\ (ChoosesKey(call) /\ BadProof(call)) =>
         /\ ~last.ok
         /\ last.error = "Token verification failed"
         /\ DPoPKind(last.cause)
    /\ last.cause = PermissionRevoked =>
         /\ ValidToken(call)
         /\ TargetOK(call)
         /\ DPoPSkipped(call) \/ (ChoosesKey(call) /\ ~BadProof(call))
         /\ \/ ~Mutual(call.token.claims.sub, call.token.claims.target)
            \/ call.fault = "get_agent"

\* C21 witness: a valid token for a pair whose grants are gone, both agents
\* still registered, is presented with the right target and a proof signed
\* by another key: the call fails on the proof, not on the permissions.
C21_Witness ==
  /\ Verifying
  /\ ChoosesKey(call)
  /\ call.fault = "none"
  /\ call.expected_target = call.token.claims.target
  /\ ~ValidAgainst(call, ChosenKey(call))
  /\ ~Reaches(call.token.claims.sub, call.token.claims.target)
  /\ ~Reaches(call.token.claims.target, call.token.claims.sub)
  /\ last.cause = DPoPVerificationFailed

\* A token under another key's signature, presented with an expected target
\* other than its target, is refused as invalid.
C21_BadSignatureWrongTarget ==
  /\ Verifying
  /\ call.token.wellformed
  /\ call.token.sig.pair # REGISTRY_PRIVATE_KEY.pair
  /\ call.expected_target \notin {"", call.token.claims.target}
  /\ last.error = "Invalid token"

\* A valid token for a pair without mutual permission, presented with a
\* wrong target, is refused for the target.
C21_WrongTargetRevoked ==
  /\ Verifying
  /\ ValidToken(call)
  /\ ~TargetOK(call)
  /\ ~Mutual(call.token.claims.sub, call.token.claims.target)
  /\ last.cause = TargetMismatch

\* The call passes every check before the permission step, and the lookups
\* of that step do not raise.
ReachesPermissionStep(c) ==
  /\ ValidToken(c)
  /\ TargetOK(c)
  /\ DPoPSkipped(c) \/ (ChoosesKey(c) /\ ~BadProof(c))
  /\ c.fault # "get_agent"

\* C22: the permission outcome of verify_token follows the permission state
\* at the moment of the call and nothing earlier: whatever was granted and
\* revoked since issuance, a correctly signed, unexpired token for (A, B)
\* whose other checks pass verifies if and only if A reaches B and B reaches
\* A in the registry the call runs against, and fails as revoked otherwise.
C22_LivePermissionOnly ==
  (Verifying /\ ReachesPermissionStep(call)) =>
    LET a == call.token.claims.sub
        b == call.token.claims.target
    IN /\ last.ok <=> Mutual(a, b)
       /\ last.ok => last.payload = call.token.claims
       /\ ~last.ok => last.cause = PermissionRevoked

\* C22 witness: the pair of an issued token lost its mutual permission after
\* issuance, got it back, and the token then verified.
C22_Witness ==
  /\ Verifying
  /\ ReachesPermissionStep(call)
  /\ lapsed
  /\ Mutual(call.token.claims.sub, call.token.claims.target)
  /\ last.ok

\* The call chooses its key on the fallback path: the claim does not decrypt.
FallbackPath(c) == ChoosesKey(c) /\ c.fault = "decrypt"

\* What the call would have come to on the fallback path for a token that
\* differs from the presented one in the key bound at issuance alone (NoKey:
\* no key bound, the claim being absent).
WithBoundKey(c, key) ==
  verify_dpop(registry,
              [c.token.claims EXCEPT !.dpop_public_key = encrypt_field(key)],
              c.dpop_proof, c.method, c.url,
              IF key = NoKey THEN "none" ELSE "decrypt")

\* C23: on the fallback path of verify_token the DPoP step is decided by the
\* supplied proof, method and url alone: the key is the proof's own JWK
\* header, the step passes exactly when the proof is valid under that key,
\* and a token that differs only in the key bound at issuance, or that binds
\* none, gives the same result for the same proof.
C23_FallbackIgnoresBoundKey ==
  (Verifying /\ FallbackPath(call)) =>
    LET jwk == call.dpop_proof.jwk
        passes == jwk # NoJwk /\ ValidAgainst(call, jwk)
    IN /\ last.key_source = "jwk"
       /\ DPoPKind(last.cause) <=> ~passes
       /\ passes =>
            last.ok <=> Mutual(call.token.claims.sub, call.token.claims.target)
       /\ \A key \in DPoPKeys \cup {NoKey} :
            /\ WithBoundKey(call, key).ok = last.ok
            /\ WithBoundKey(call, key).error = last.error
            /\ WithBoundKey(call, key).cause = last.cause
            /\ WithBoundKey(call, key).payload.sub = last.payload.sub
            /\ WithBoundKey(call, key).dpop_calls = last.dpop_calls

\* C23 witness: the token was bound to k1 at issuance, its claim does not
\* decrypt, and a proof signed by k2 with k2 in its JWK header verifies.
C23_Witness ==
  /\ Verifying
  /\ FallbackPath(call)
  /\ call.token.claims.dpop_public_key = encrypt_field(Key("k1"))
  /\ call.dpop_proof.signer = "k2"
  /\ call.dpop_proof.jwk = "k2"
  /\ last.key_source = "jwk"
  /\ last.ok

\* C24: verify_token runs the DPoP proof check only when a proof, a method
\* and a url are all supplied, and then for every call that gets as far as
\* a key; when one of the three is missing DPoPVerifier is not invoked, no
\* key is chosen, and the call is decided by signature, expiry, target and
\* live permission alone, so it can succeed with a proof nobody checked.
C24_DPoPOnlyWhenAllSupplied ==
  Verifying =>
    /\ last.dpop_calls \in {0, 1}
    /\ last.dpop_calls = 1 => ~DPoPSkipped(call)
    /\ (ChoosesKey(call) /\ ChosenKey(call) # NoJwk) => last.dpop_calls = 1
    /\ DPoPSkipped(call) =>
         /\ last.dpop_calls = 0
         /\ last.key_source = "none"
         /\ ~DPoPKind(last.cause)
         /\ Count(last.events, "dpop_verification_info") = 0
         /\ Count(last.events, "dpop_verification_error") = 0
         /\ call.fault # "get_agent" =>
              (last.ok <=>
                 /\ ValidToken(call)
                 /\ TargetOK(call)
                 /\ Mutual(call.token.claims.sub, call.token.claims.target))

\* C24 witness: a proof signed by a key other than the token's is supplied
\* without a method, and the call succeeds with DPoPVerifier never invoked.
C24_Witness ==
  /\ Verifying
  /\ call.dpop_proof # NoProof
  /\ call.method = "" /\ call.url # ""
  /\ call.dpop_proof.signer # decrypt_field(call.token.claims.dpop_public_key).body
  /\ last.ok
  /\ last.dpop_calls = 0

\* The same with the url missing.
C24_ProofWithoutUrl ==
  /\ Verifying
  /\ call.dpop_proof # NoProof
  /\ call.method # "" /\ call.url = ""
  /\ last.ok
  /\ last.dpop_calls = 0

(* ---------------------------------------------------------------------- *)
(* Properties of WebSocketHandler, under SpecWS.                           *)
(* ---------------------------------------------------------------------- *)

\* The connection has arrived: handle_connection was called for it.
Arrived(k) == connection[k].pc # "new"

\* No channel id is bound to connection k.
Unbound(k) == \A c \in ChannelIds : active_connections[c] # k

\* The connection has taken no frame and sent nothing.
Untouched(k) ==
  /\ connection[k].frame = NoFrame
  /\ connection[k].replies = << >>
  /\ connection[k].pending = NoReply
  /\ connection[k].agent_id = None
  /\ connection[k].channel_id = None

\* Connection k takes the step, and the others stay as they are.
StepOf(k) ==
  /\ connection'[k] # connection[k]
  /\ \A j \in ConnIds \ {k} : connection'[j] = connection[j]

\* C12: a connection that arrives without an Authorization header is closed
\* with code 1008 by the step that takes it in; it never reads a frame, never
\* sends, and its handler leaves active_connections as it was.
C12_MissingHeaderClosed ==
  /\ [](\A k \in ConnIds :
         (Arrived(k) /\ ~connection[k].auth_header.present) =>
           /\ connection[k].pc = "ended"
           /\ connection[k].close_code = 1008
           /\ Untouched(k)
           /\ Unbound(k))
  /\ [][\A k \in ConnIds :
         (StepOf(k) /\ ~connection'[k].auth_header.present) =>
           /\ connection[k].pc = "new"
           /\ active_connections' = active_connections]_vars

C12_Witness ==
  \E k \in ConnIds :
    /\ Arrived(k)
    /\ ~connection[k].auth_header.present
    /\ connection[k].close_code = 1008
    /\ \E c \in ChannelIds : active_connections[c] # None


\* C13: whenever the verifier has reported the token invalid or has raised,
\* be it an AuthenticationError or any other exception, the connection is
\* ended with close code 1008, has taken no frame, sent nothing and is bound
\* to no channel.
C13_VerifierFailureClosed ==
  \A k \in ConnIds :
    connection[k].verifier \in {"invalid", "AuthenticationError", "Exception"} =>
      /\ connection[k].pc = "ended"
      /\ connection[k].close_code = 1008
      /\ Untouched(k)
      /\ Unbound(k)

\* The verifier raised something that is no AuthenticationError, and
\* handle_connection ended without closing the connection.
C13_Witness ==
  \E k \in ConnIds :
    /\ connection[k].verifier = "Exception"
    /\ connection[k].pc = "ended"
    /\ connection[k].close_code = 0
    /\ Untouched(k)


\* The frame is a JSON message with both sections, of the given type, with
\* its channel id, message id and sender id.
Complete(f, type) ==
  /\ f.raw = "json" /\ f.meta /\ f.content
  /\ f.type = type
  /\ Missing \notin {f.channel_id, f.message_id, f.sender_id}

\* r is the CHANNEL_ACCEPT that answers the CHANNEL_OPEN f.
AcceptFor(r, f) ==
  /\ r.type = CHANNEL_ACCEPT
  /\ r.sequence = 1
  /\ r.reply_to = f.message_id
  /\ r.channel_id = f.channel_id
  /\ r.recipient_id = f.sender_id
  /\ r.data.protocol_version = "1.0"
  /\ r.data.capabilities = << "json" >>

\* C14: the step that takes a CHANNEL_OPEN with channel id c, message id m
\* and sender id s binds c to this connection in active_connections while
\* the accept is still unsent; when the send goes out, the frame's replies
\* are exactly one CHANNEL_ACCEPT with sequence 1, reply_to m, channel_id c,
\* recipient_id s and data {protocol_version "1.0", capabilities ["json"]},
\* and the loop waits for the next frame.
C14_OpenRegistersThenAccepts ==
  /\ [][\A k \in ConnIds :
         ( /\ StepOf(k)
           /\ connection[k].pc = "receiving"
           /\ connection'[k].pc # "ended"
           /\ Complete(connection'[k].frame, CHANNEL_OPEN) ) =>
             /\ active_connections'[connection'[k].frame.channel_id] = k
             /\ connection'[k].channel_id = connection'[k].frame.channel_id
             /\ connection'[k].pc = "sending"
             /\ connection'[k].replies = << >>
             /\ AcceptFor(connection'[k].pending, connection'[k].frame)]_vars
  /\ [][\A k \in ConnIds :
         ( /\ StepOf(k)
           /\ connection[k].pc = "sending"
           /\ Complete(connection[k].frame, CHANNEL_OPEN)
           /\ ~connection'[k].send_failed ) =>
             /\ connection'[k].pc = "receiving"
             /\ Len(connection'[k].replies) = 1
             /\ AcceptFor(connection'[k].replies[1], connection[k].frame)
             /\ active_connections' = active_connections]_vars
  /\ [](\A k \in ConnIds :
         (Complete(connection[k].frame, CHANNEL_OPEN) /\ ~connection[k].send_failed) =>
           /\ Len(connection[k].replies) <= 1
           /\ connection[k].pc = "receiving" =>
                /\ Len(connection[k].replies) = 1
                /\ AcceptFor(connection[k].replies[1], connection[k].frame))

\* A channel is open: bound to the connection that was sent the accept.
C14_Witness ==
  \E k \in ConnIds :
    /\ Complete(connection[k].frame, CHANNEL_OPEN)
    /\ connection[k].pc = "receiving"
    /\ Len(connection[k].replies) = 1
    /\ AcceptFor(connection[k].replies[1], connection[k].frame)
    /\ active_connections[connection[k].frame.channel_id] = k
    /\ connection[k].frame.channel_id = "c2"


\* The frame is a CHANNEL_CLOSE message with all of its envelope.
CloseMessage(f) == Complete(f, CHANNEL_CLOSE) /\ f.data

\* C15: once a connection has taken a CHANNEL_CLOSE message it only awaits
\* the acknowledgment's send; the step after that send, whether or not the
\* acknowledgment went out, leaves the message's channel id unregistered and
\* the handler ended, and an ended handler takes no further step: no later
\* frame is parsed, dispatched or answered on that connection.
C15_CloseEndsLoop ==
  /\ [](\A k \in ConnIds :
         CloseMessage(connection[k].frame) =>
           \/ connection[k].pc = "sending" /\ connection[k].site = "close"
           \/ connection[k].pc = "ended" /\ connection[k].ended_by = "channel_close")
  /\ [][\A k \in ConnIds :
         (StepOf(k) /\ CloseMessage(connection[k].frame)) =>
           /\ connection'[k].pc = "ended"
           /\ connection'[k].frame = connection[k].frame
           /\ active_connections'[connection[k].frame.channel_id] = None]_vars
  /\ [][\A k \in ConnIds :
         connection[k].pc = "ended" => connection'[k] = connection[k]]_vars

\* A connection opened a channel, was sent the peer's CHANNEL_CLOSE for it
\* and acknowledged it.
C15_Witness ==
  \E k \in ConnIds :
    /\ CloseMessage(connection[k].frame)
    /\ connection[k].pc = "ended"
    /\ connection[k].channel_id = connection[k].frame.channel_id
    /\ Len(connection[k].replies) = 1
    /\ connection[k].replies[1].type = CHANNEL_CLOSE
    /\ active_connections[connection[k].frame.channel_id] = None


\* r is the HEARTBEAT that answers the HEARTBEAT f.
HeartbeatFor(r, f) ==
  /\ r.type = HEARTBEAT
  /\ r.sequence = 0
  /\ r.channel_id = f.channel_id
  /\ r.reply_to = f.message_id

\* C16: the step that takes a HEARTBEAT message leaves one HEARTBEAT answer
\* pending, with sequence 0, the heartbeat's channel id and reply_to its
\* message id; when the send goes out, that answer is the frame's only
\* reply and the loop waits for the next frame; neither step changes
\* active_connections, so a registered channel stays registered.
C16_HeartbeatAnswered ==
  /\ [][\A k \in ConnIds :
         ( /\ StepOf(k)
           /\ connection[k].pc = "receiving"
           /\ connection'[k].pc # "ended"
           /\ Complete(connection'[k].frame, HEARTBEAT) ) =>
             /\ connection'[k].pc = "sending"
             /\ connection'[k].replies = << >>
             /\ HeartbeatFor(connection'[k].pending, connection'[k].frame)
             /\ active_connections' = active_connections]_vars
  /\ [][\A k \in ConnIds :
         ( /\ StepOf(k)
           /\ connection[k].pc = "sending"
           /\ Complete(connection[k].frame, HEARTBEAT)
           /\ ~connection'[k].send_failed ) =>
             /\ connection'[k].pc = "receiving"
             /\ Len(connection'[k].replies) = 1
             /\ HeartbeatFor(connection'[k].replies[1], connection[k].frame)
             /\ active_connections' = active_connections]_vars
  /\ [](\A k \in ConnIds :
         (Complete(connection[k].frame, HEARTBEAT) /\ ~connection[k].send_failed) =>
           /\ Len(connection[k].replies) <= 1
           /\ connection[k].pc = "receiving" =>
                /\ Len(connection[k].replies) = 1
                /\ HeartbeatFor(connection[k].replies[1], connection[k].frame))

\* A heartbeat on a channel this connection opened was answered, and the
\* channel is still bound to the connection.
C16_Witness ==
  \E k \in ConnIds :
    /\ Complete(connection[k].frame, HEARTBEAT)
    /\ connection[k].pc = "receiving"
    /\ Len(connection[k].replies) = 1
    /\ HeartbeatFor(connection[k].replies[1], connection[k].frame)
    /\ connection[k].channel_id = connection[k].frame.channel_id
    /\ active_connections[connection[k].frame.channel_id] = k


\* The frame is a complete message of a type that is neither handled by the
\* loop itself nor registered by the host.
Unsupported(f) ==
  /\ Complete(f, f.type)
  /\ f.type \notin {CHANNEL_OPEN, CHANNEL_CLOSE, HEARTBEAT}
  /\ f.type \notin message_handlers

\* r is the ERROR that tells the sender of f that f's type is unsupported.
UnsupportedFor(r, f) ==
  /\ r.type = ERROR
  /\ r.data.message = Text("Unsupported message type", f.type)
  /\ r.reply_to = f.message_id
  /\ r.recipient_id = f.sender_id

\* C17: the step that takes a complete message of an unsupported type runs
\* no handler and leaves one ERROR pending that names the type, with
\* reply_to the message's id and recipient the message's sender; when the
\* send goes out, that ERROR is the frame's only reply and the connection
\* is open and waiting for the next frame.
C17_UnsupportedTypeAnswered ==
  /\ [][\A k \in ConnIds :
         ( /\ StepOf(k)
           /\ connection[k].pc = "receiving"
           /\ connection'[k].pc # "ended"
           /\ Unsupported(connection'[k].frame) ) =>
             /\ connection'[k].pc = "sending"
             /\ ~connection'[k].handled
             /\ connection'[k].replies = << >>
             /\ UnsupportedFor(connection'[k].pending, connection'[k].frame)]_vars
  /\ [][\A k \in ConnIds :
         ( /\ StepOf(k)
           /\ connection[k].pc = "sending"
           /\ Unsupported(connection[k].frame)
           /\ ~connection'[k].send_failed ) =>
             /\ connection'[k].pc = "receiving"
             /\ connection'[k].transport = "open"
             /\ connection'[k].close_code = 0
             /\ Len(connection'[k].replies) = 1
             /\ UnsupportedFor(connection'[k].replies[1], connection[k].frame)]_vars
  /\ [](\A k \in ConnIds :
         (Unsupported(connection[k].frame) /\ ~connection[k].send_failed) =>
           /\ Len(connection[k].replies) <= 1
           /\ connection[k].pc \in {"sending", "receiving", "ended"}
           /\ connection[k].pc = "receiving" =>
                /\ Len(connection[k].replies) = 1
                /\ UnsupportedFor(connection[k].replies[1], connection[k].frame))

\* An application message arrived while the host had registered no handler
\* for its type, and was answered.
C17_Witness ==
  \E k \in ConnIds :
    /\ Unsupported(connection[k].frame)
    /\ connection[k].frame.type = APP_TYPE
    /\ connection[k].pc = "receiving"
    /\ Len(connection[k].replies) = 1
    /\ UnsupportedFor(connection[k].replies[1], connection[k].frame)


\* C18: a connection that has had a send raise while a frame was processed,
\* the transport staying open, has reported an ERROR for that frame by the
\* time it waits for the next one; and a handler that took a frame has ended
\* only if that frame was a CHANNEL_CLOSE message or the transport closed.
C18_ExceptionsReportedAndSurvived ==
  \A k \in ConnIds :
    /\ (connection[k].pc = "receiving" /\ connection[k].send_failed) =>
         /\ connection[k].replies # << >>
         /\ connection[k].replies[Len(connection[k].replies)].type = ERROR
    /\ (connection[k].pc = "ended" /\ connection[k].frame # NoFrame) =>
         \/ CloseMessage(connection[k].frame)
         \/ connection[k].transport = "closed"

\* The frame was no JSON, the ERROR answering it could not be sent although
\* the transport was open, and handle_connection ended.
C18_Witness ==
  \E k \in ConnIds :
    /\ connection[k].frame = NotJson
    /\ connection[k].send_failed
    /\ connection[k].transport = "open"
    /\ connection[k].pc = "ended"
    /\ connection[k].replies = << >>


\* The connection was authenticated: its handler entered the receive loop.
EnteredLoop(k) == connection[k].verifier = "valid"

\* C19: whenever a handler that entered the receive loop has ended, by a
\* CHANNEL_CLOSE, by transport closure or by an error, no channel id is
\* bound to its connection in active_connections.
C19_EndedLeavesNoChannel ==
  \A k \in ConnIds :
    (connection[k].pc = "ended" /\ EnteredLoop(k)) => Unbound(k)

\* A connection opened c1, then c2, and ended: c1 is still bound to it.
C19_Witness ==
  \E k \in ConnIds :
    /\ connection[k].pc = "ended"
    /\ EnteredLoop(k)
    /\ connection[k].channel_id = "c2"
    /\ active_connections["c1"] = k
    /\ active_connections["c2"] = None


\* The frame is no JSON, or JSON without its meta or its content section.
Malformed(f) ==
  \/ f.raw = "garbage"
  \/ f.raw = "json" /\ (~f.meta \/ ~f.content)

\* r is the ERROR that rejects the malformed frame f.
RejectionFor(r, f) ==
  /\ r.type = ERROR
  /\ r.data.message = IF f.raw = "garbage" THEN Text("Invalid JSON", "")
                      ELSE Text("Invalid message format", "")

\* C20: the step that takes a frame that is no JSON, or JSON without meta or
\* without content, reaches no dispatch branch, calls no handler, leaves
\* active_connections and the connection's recorded sender and channel as
\* they were and has one ERROR pending; when the send goes out, that ERROR
\* is the frame's only reply and the connection is open and waiting for the
\* next frame.
C20_MalformedRejected ==
  /\ [][\A k \in ConnIds :
         ( /\ StepOf(k)
           /\ connection[k].pc = "receiving"
           /\ connection'[k].pc # "ended"
           /\ Malformed(connection'[k].frame) ) =>
             /\ connection'[k].pc = "sending"
             /\ connection'[k].branch = ""
             /\ ~connection'[k].handled
             /\ connection'[k].replies = << >>
             /\ RejectionFor(connection'[k].pending, connection'[k].frame)
             /\ connection'[k].agent_id = connection[k].agent_id
             /\ connection'[k].channel_id = connection[k].channel_id
             /\ active_connections' = active_connections]_vars
  /\ [][\A k \in ConnIds :
         ( /\ StepOf(k)
           /\ connection[k].pc = "sending"
           /\ Malformed(connection[k].frame)
           /\ ~connection'[k].send_failed ) =>
             /\ connection'[k].pc = "receiving"
             /\ connection'[k].transport = "open"
             /\ connection'[k].close_code = 0
             /\ Len(connection'[k].replies) = 1
             /\ RejectionFor(connection'[k].replies[1], connection[k].frame)
             /\ connection'[k].agent_id = connection[k].agent_id
             /\ connection'[k].channel_id = connection[k].channel_id
             /\ active_connections' = active_connections]_vars
  /\ [](\A k \in ConnIds :
         Malformed(connection[k].frame) =>
           /\ connection[k].branch = ""
           /\ ~connection[k].handled
           /\ connection[k].pc \notin {"handling"})

\* A connection with a sender recorded and a channel open was sent JSON
\* without a meta section, answered it and kept its channel.
C20_Witness ==
  \E k \in ConnIds :
    /\ connection[k].frame = NoMeta
    /\ connection[k].pc = "receiving"
    /\ Len(connection[k].replies) = 1
    /\ RejectionFor(connection[k].replies[1], NoMeta)
    /\ connection[k].agent_id = "s1"
    /\ connection[k].channel_id = "c1"
    /\ active_connections["c1"] = k


\* C25: an entry of active_connections that binds channel id c to
\* connection X stays bound to X through every step of any other
\* connection Y: no CHANNEL_OPEN or CHANNEL_CLOSE naming c that Y processes
\* and no teardown of Y removes or rebinds it.
C25_EntryStaysWithOwner ==
  [][\A c \in ChannelIds : \A X \in ConnIds :
       ( /\ active_connections[c] = X
         /\ \E Y \in ConnIds \ {X} : StepOf(Y) ) =>
           active_connections'[c] = X]_vars

\* C25 witness: a connection that opened c1 is still in its loop with c1 as
\* its channel, and c1 is bound to the other connection.
C25_Witness ==
  \E X \in ConnIds : \E Y \in ConnIds \ {X} :
    /\ connection[X].channel_id = "c1"
    /\ connection[X].pc \in {"receiving", "sending", "handling"}
    /\ active_connections["c1"] = Y

\* A connection still in its loop with c1 as its channel has lost the entry
\* for c1 altogether, the other connection having closed c1 or ended.
C25_RemovedByPeer ==
  \E X \in ConnIds : \E Y \in ConnIds \ {X} :
    /\ connection[X].channel_id = "c1"
    /\ connection[X].pc = "receiving"
    /\ connection[X].frame.type # CHANNEL_CLOSE
    /\ active_connections["c1"] = None
    /\ connection[Y].pc = "ended"
    /\ connection[Y].ended_by \in {"channel_close", "transport_closed"}


\* Connection k has registered no channel: no CHANNEL_OPEN got as far as
\* line 98 on it.
NeverOpened(k) == connection[k].channel_id = None

\* The step binds channel id c to connection k by a CHANNEL_OPEN that k,
\* authenticated and in its loop, takes.
OpenedBy(k, c) ==
  /\ StepOf(k)
  /\ EnteredLoop(k)
  /\ connection[k].pc = "receiving"
  /\ connection'[k].frame.type = CHANNEL_OPEN
  /\ connection'[k].frame.channel_id = c
  /\ active_connections'[c] = k

\* active_connections gains or rebinds an entry only in a step that takes a
\* CHANNEL_OPEN on an authenticated connection.
C26_GainsOnlyOnOpen ==
  [][\A c \in ChannelIds :
       ( /\ active_connections'[c] # active_connections[c]
         /\ active_connections'[c] # None ) =>
           \E k \in ConnIds : OpenedBy(k, c)]_vars

\* C26: active_connections gains an entry only when an authenticated
\* connection processes a CHANNEL_OPEN, and every step of a connection that
\* has processed no CHANNEL_OPEN, its teardown included, leaves
\* active_connections exactly as it was, whatever frames the connection
\* sends, CHANNEL_CLOSE among them.
C26_NoOpenNoEffect ==
  /\ C26_GainsOnlyOnOpen
  /\ [][\A k \in ConnIds :
         (StepOf(k) /\ connection'[k].channel_id = None) =>
           active_connections' = active_connections]_vars

\* C26 witness: a connection that opened no channel ended on a CHANNEL_CLOSE
\* naming c1, and c1, the channel of a connection still in its loop, is no
\* longer registered.
C26_Witness ==
  \E X \in ConnIds : \E Y \in ConnIds \ {X} :
    /\ NeverOpened(Y)
    /\ connection[Y].pc = "ended"
    /\ connection[Y].ended_by = "channel_close"
    /\ connection[Y].frame.channel_id = "c1"
    /\ connection[X].channel_id = "c1"
    /\ connection[X].pc = "receiving"
    /\ active_connections["c1"] = None


\* r is the acknowledgment of the CHANNEL_CLOSE message f.
CloseAckFor(r, f) ==
  /\ r.type = CHANNEL_CLOSE
  /\ r.reply_to = f.message_id
  /\ r.channel_id = f.channel_id
  /\ r.recipient_id = f.sender_id
  /\ r.data.acknowledged
  /\ r.data.reason = IF f.reason = Missing THEN "normal" ELSE f.reason

\* C27: the step that takes a CHANNEL_CLOSE message leaves one CHANNEL_CLOSE
\* reply pending, with acknowledged true and the message's reason ("normal"
\* when it gives none); the step that ends that send, sent or failed, ends
\* the loop with the message's channel id out of active_connections; a
\* failed send leaves no reply behind, and the ended handler sends nothing
\* more.
C27_CloseAckBestEffort ==
  /\ [][\A k \in ConnIds :
         ( /\ StepOf(k)
           /\ connection[k].pc = "receiving"
           /\ connection'[k].pc # "ended"
           /\ CloseMessage(connection'[k].frame) ) =>
             /\ connection'[k].pc = "sending"
             /\ connection'[k].site = "close"
             /\ connection'[k].replies = << >>
             /\ CloseAckFor(connection'[k].pending, connection'[k].frame)]_vars
  /\ [][\A k \in ConnIds :
         ( /\ StepOf(k)
           /\ connection[k].pc = "sending"
           /\ CloseMessage(connection[k].frame) ) =>
             /\ connection'[k].pc = "ended"
             /\ connection'[k].ended_by = "channel_close"
             /\ active_connections'[connection[k].frame.channel_id] = None
             /\ connection'[k].pending = NoReply
             /\ IF connection'[k].send_failed
                THEN connection'[k].replies = << >>
                ELSE connection'[k].replies = << connection[k].pending >>]_vars
  /\ [][\A k \in ConnIds :
         (connection[k].pc = "ended" /\ CloseMessage(connection[k].frame)) =>
           /\ connection'[k].pc = "ended"
           /\ connection'[k].replies = connection[k].replies]_vars

\* C27 witness: a connection that opened c1 took a CHANNEL_CLOSE for c1, the
\* acknowledgment failed to go out on a transport that stayed open, and the
\* handler has ended with c1 unregistered and nothing sent.
C27_Witness ==
  \E k \in ConnIds :
    /\ CloseMessage(connection[k].frame)
    /\ connection[k].channel_id = "c1"
    /\ connection[k].frame.channel_id = "c1"
    /\ connection[k].send_failed
    /\ connection[k].transport = "open"
    /\ connection[k].pc = "ended"
    /\ connection[k].ended_by = "channel_close"
    /\ connection[k].replies = << >>
    /\ active_connections["c1"] = None


\* Connection k opened channel id c and then processed a CHANNEL_CLOSE for
\* it: c has been through OPEN and was removed by that close.
ClosedBy(k, c) ==
  /\ connection[k].pc = "ended"
  /\ connection[k].ended_by = "channel_close"
  /\ connection[k].channel_id = c
  /\ connection[k].frame.channel_id = c

\* C28: CLOSED is terminal: a channel id that was opened and then removed
\* from active_connections by a processed CHANNEL_CLOSE is never active
\* again, whatever messages arrive later on any connection.
C28_ClosedIsTerminal ==
  \A c \in ChannelIds :
    (\E k \in ConnIds : ClosedBy(k, c)) => active_connections[c] = None

\* C28 witness: one connection opened c1 and closed it; the other connection
\* then sent a CHANNEL_OPEN for c1, was accepted, and holds c1.
C28_Witness ==
  \E X \in ConnIds : \E Y \in ConnIds \ {X} :
    /\ ClosedBy(X, "c1")
    /\ Len(connection[X].replies) = 1
    /\ active_connections["c1"] = Y
    /\ connection[Y].pc = "receiving"
    /\ connection[Y].frame.type = CHANNEL_OPEN
    /\ Len(connection[Y].replies) = 1
    /\ connection[Y].replies[1].type = CHANNEL_ACCEPT


\* f is a well-formed message of an application type that has a handler.
Registered(f) ==
  /\ Complete(f, f.type)
  /\ f.type \notin {CHANNEL_OPEN, CHANNEL_CLOSE, HEARTBEAT}
  /\ f.type \in message_handlers

BuiltIn == {CHANNEL_OPEN, CHANNEL_CLOSE, HEARTBEAT}

\* C29: the step that takes a well-formed message of a registered
\* application type calls the handler with it, and the handler is called at
\* no other step for that frame, so once; when the handler returns a
\* non-empty response that response is sent and is the frame's only reply,
\* and when it returns None or an empty payload nothing is sent; a frame of
\* type CHANNEL_OPEN, CHANNEL_CLOSE or HEARTBEAT never reaches a registered
\* handler, also when one is registered under its type.
C29_RegisteredHandlerOnce ==
  /\ [][\A k \in ConnIds :
         ( /\ StepOf(k)
           /\ connection[k].pc = "receiving"
           /\ connection'[k].pc # "ended"
           /\ Registered(connection'[k].frame) ) =>
             /\ connection'[k].pc = "handling"
             /\ connection'[k].handled
             /\ connection'[k].branch = "handler"
             /\ connection'[k].replies = << >>
             /\ connection'[k].pending = NoReply]_vars
  /\ [][\A k \in ConnIds :
         (StepOf(k) /\ connection'[k].pc = "handling") =>
           /\ connection[k].pc = "receiving"
           /\ Registered(connection'[k].frame)]_vars
  /\ [][\A k \in ConnIds :
         (StepOf(k) /\ connection[k].pc = "handling") =>
           /\ connection'[k].frame = connection[k].frame
           /\ connection'[k].returned \in HandlerOutcomes
           /\ connection'[k].returned = "response" =>
                /\ connection'[k].pc = "sending"
                /\ connection'[k].pending = handler_response(connection[k].frame)
           /\ connection'[k].returned \in {"empty", "none"} =>
                /\ connection'[k].pc = "receiving"
                /\ connection'[k].pending = NoReply
                /\ connection'[k].replies = << >>]_vars
  /\ [](\A k \in ConnIds :
         /\ ( /\ connection[k].returned = "response"
              /\ connection[k].pc = "receiving"
              /\ ~connection[k].send_failed ) =>
                connection[k].replies = << handler_response(connection[k].frame) >>
         /\ connection[k].returned \in {"empty", "none"} =>
              connection[k].replies = << >>
         /\ connection[k].frame.type \in BuiltIn =>
              /\ ~connection[k].handled
              /\ connection[k].returned = ""
              /\ connection[k].pc # "handling"
              /\ connection[k].branch # "handler")

\* C29 witness: an application message of a registered type was handed to
\* its handler, the handler returned a response, and that response went out
\* as the frame's only reply.
C29_Witness ==
  \E k \in ConnIds :
    /\ Registered(connection[k].frame)
    /\ connection[k].handled
    /\ connection[k].returned = "response"
    /\ connection[k].pc = "receiving"
    /\ connection[k].replies = << handler_response(connection[k].frame) >>

\* A heartbeat arrived while a handler was registered under HEARTBEAT, and
\* was answered by the built-in branch without the handler being called.
C29_BuiltInWins ==
  \E k \in ConnIds :
    /\ HEARTBEAT \in message_handlers
    /\ Complete(connection[k].frame, HEARTBEAT)
    /\ connection[k].pc = "receiving"
    /\ ~connection[k].handled
    /\ Len(connection[k].replies) = 1
    /\ HeartbeatFor(connection[k].replies[1], connection[k].frame)

\* The handler returned an empty payload and nothing was sent.
C29_EmptyUnanswered ==
  \E k \in ConnIds :
    /\ Registered(connection[k].frame)
    /\ connection[k].returned = "empty"
    /\ connection[k].pc = "receiving"
    /\ connection[k].replies = << >>


\* The handler of connection k has processed a CHANNEL_CLOSE message: its
\* acknowledgment is being sent.
CloseProcessed(k) ==
  /\ CloseMessage(connection[k].frame)
  /\ connection[k].pc = "sending"
  /\ connection[k].site = "close"

\* handle_connection has returned for k and its finally clause has run: the
\* connection's channel id is not bound to it.
TornDown(k) ==
  /\ connection[k].pc = "ended"
  /\ connection[k].channel_id # None =>
       active_connections[connection[k].channel_id] # k

\* C30: under fair scheduling, a connection whose peer has closed the
\* transport, or whose handler has processed a CHANNEL_CLOSE, eventually has
\* its handler ended with the teardown cleanup done; an ended handler stays
\* ended.
C30_ClosedEventuallyEnds ==
  /\ \A k \in ConnIds : (k \in peer_closed) ~> TornDown(k)
  /\ \A k \in ConnIds : CloseProcessed(k) ~> TornDown(k)
  /\ [][\A k \in ConnIds :
         connection[k].pc = "ended" => connection'[k].pc = "ended"]_vars

\* C30 witness: the peer closed the transport while the registered handler
\* was running for a connection with a channel open; the handler has ended
\* on the closed transport and the channel is unregistered.
C30_Witness ==
  \E k \in ConnIds :
    /\ k \in peer_closed
    /\ connection[k].handled
    /\ connection[k].channel_id = "c1"
    /\ connection[k].pc = "ended"
    /\ connection[k].ended_by = "transport_closed"
    /\ active_connections["c1"] = None


(***************************************************************************)
(* Properties of the token service, continued                              *)
(***************************************************************************)

\* The lifetime create_interaction_token is asked for: the supplied
\* expires_delta, or the configured default when none is supplied.
LifetimeOf(c) ==
  IF c.expires_delta.given THEN c.expires_delta.ticks ELSE TOKEN_EXPIRY_TICKS

\* C34: for every issued token, iat = nbf = the issue time in whole seconds
\* and exp = the whole seconds of (issue time + expires_delta), expires_delta
\* being the supplied value when one is given and the configured default only
\* when none is; the expiry returned to the caller is issue time +
\* expires_delta, and the exp claim is that instant truncated to whole seconds.
C34_TimesOfIssuedToken ==
  (Creating /\ last.ok) =>
    /\ last.token.claims.iat = now \div TicksPerSecond
    /\ last.token.claims.nbf = last.token.claims.iat
    /\ last.token.claims.exp = (now + LifetimeOf(call)) \div TicksPerSecond
    /\ last.expires_at = now + LifetimeOf(call)
    /\ last.token.claims.exp * TicksPerSecond <= last.expires_at
    /\ last.expires_at < (last.token.claims.exp + 1) * TicksPerSecond

\* C34 witness: a token was issued with a supplied expires_delta other than
\* the default, at an instant that is not a whole second, so that iat and
\* exp are both truncated.
C34_Witness ==
  /\ Creating
  /\ last.ok
  /\ call.expires_delta.given
  /\ call.expires_delta.ticks # TOKEN_EXPIRY_TICKS
  /\ now % TicksPerSecond # 0
  /\ last.token.claims.iat * TicksPerSecond < now
  /\ last.expires_at = now + call.expires_delta.ticks

\* C34 witness: a token was issued with no expires_delta and expires the
\* default lifetime after its issue.
C34_DefaultLifetime ==
  /\ Creating
  /\ last.ok
  /\ ~call.expires_delta.given
  /\ last.expires_at = now + TOKEN_EXPIRY_TICKS


\* C36: the public key embedded in a token is stored only in encrypted form
\* and round-trips: the dpop_public_key claim of an issued token is the field
\* encryption of the key supplied at issuance, never that key in plaintext;
\* decrypting the claim gives exactly the supplied key (the key the issuance
\* proof was checked against), and that is the key a verification that takes
\* its key from the token checks the verifier's proof against.
C36_KeyEncryptedRoundTrip ==
  /\ (Creating /\ last.ok) =>
       /\ last.token.claims.dpop_public_key = encrypt_field(call.dpop_public_key)
       /\ last.token.claims.dpop_public_key # call.dpop_public_key
       /\ decrypt_field(last.token.claims.dpop_public_key) = call.dpop_public_key
  /\ \A t \in issued :
       /\ t.claims.dpop_public_key \notin DPoPKeys
       /\ t.claims.dpop_public_key \in { encrypt_field(key) : key \in DPoPKeys }
       /\ decrypt_field(t.claims.dpop_public_key).body
            = t.claims.dpop_hash.sha256_of.signer
  /\ (Verifying /\ call.token \in issued /\ last.key_source = "token") =>
       /\ call.fault # "decrypt"
       /\ last.ok =>
            call.dpop_proof.signer = decrypt_field(call.token.claims.dpop_public_key).body

\* C36 witness: a token was issued for a key given without its PEM armour;
\* a later verification decrypted the claim and accepted a proof signed by
\* that key.
C36_Witness ==
  /\ Verifying
  /\ call.token \in issued
  /\ last.ok
  /\ last.key_source = "token"
  /\ decrypt_field(call.token.claims.dpop_public_key) = [body |-> "k1", pem |-> FALSE]
  /\ call.dpop_proof.signer = "k1"


\* The agent lookups of a permission check for the pair (a, b) do not both
\* give a record: AgentService raises during the call, or one of the two
\* agents has no record.
LookupFails(c, a, b) == c.fault = "get_agent" \/ ~Present(a) \/ ~Present(b)

\* C37: the mutual-permission check fails closed: if AgentService raises
\* while resolving either agent, or has no record for either agent, the check
\* evaluates to not permitted whatever grants are stored, so
\* create_interaction_token issues no token and verify_token returns no
\* claims; a lookup error never results in a grant.
C37_PermissionCheckFailsClosed ==
  /\ \A a \in AgentIds, b \in AgentIds :
       /\ ~_verify_agent_permissions(registry, a, b, TRUE).result
       /\ (~Present(a) \/ ~Present(b)) =>
            ~_verify_agent_permissions(registry, a, b, FALSE).result
  /\ (Creating /\ LookupFails(call, call.agent_id, call.target_agent_id)) =>
       /\ ~last.ok
       /\ last.token = NoToken
       /\ last.token \notin issued
       /\ last.cause = PermissionDenied(call.agent_id, call.target_agent_id)
  /\ (Verifying
        /\ LookupFails(call, call.token.claims.sub, call.token.claims.target)) =>
       /\ ~last.ok
       /\ last.payload = NoClaims
       /\ (ValidToken(call) /\ TargetOK(call) /\ DPoPSkipped(call)) =>
            last.cause = PermissionRevoked

\* C37 witness: AgentService raised while create_interaction_token resolved
\* a pair that holds mutual permission, with a valid proof; no token came
\* back.
C37_Witness ==
  /\ Creating
  /\ call.fault = "get_agent"
  /\ Mutual(call.agent_id, call.target_agent_id)
  /\ ProofValid(call)
  /\ ~last.ok
  /\ last.token = NoToken

\* C37 witness: AgentService raised while verify_token resolved the pair of a
\* valid token that holds mutual permission; the call failed as revoked.
C37_VerifyLookupRaises ==
  /\ Verifying
  /\ call.fault = "get_agent"
  /\ ValidToken(call)
  /\ TargetOK(call)
  /\ DPoPSkipped(call)
  /\ Mutual(call.token.claims.sub, call.token.claims.target)
  /\ ~last.ok
  /\ last.cause = PermissionRevoked

\* C37 witness: the subject of a valid token was deleted after issuance and
\* the token no longer verifies.
C37_SubjectGone ==
  /\ Verifying
  /\ call.fault = "none"
  /\ ValidToken(call)
  /\ TargetOK(call)
  /\ DPoPSkipped(call)
  /\ ~Present(call.token.claims.sub)
  /\ Present(call.token.claims.target)
  /\ ~last.ok


\* The grant authorizes the asked-for target by its own kind.
Authorizes(perm, q) ==
  \/ perm.type = ALLOW_AGENT /\ perm.target_id = q.target_agent_id
  \/ perm.type = ALLOW_PROVIDER /\ perm.target_id = q.target_provider_id

\* The grant names the id of the other kind and not the id of its own.
CrossKind(perm, q) ==
  \/ /\ perm.type = ALLOW_AGENT
     /\ perm.target_id = q.target_provider_id
     /\ perm.target_id # q.target_agent_id
  \/ /\ perm.type = ALLOW_PROVIDER
     /\ perm.target_id = q.target_agent_id
     /\ perm.target_id # q.target_provider_id

\* The grants a permission list holds.
GrantsIn(agent_permissions) ==
  { agent_permissions[i] : i \in DOMAIN agent_permissions }

\* C35: for every permission list, target agent id and target provider id,
\* the directional check returns true if and only if the list holds an
\* ALLOW_AGENT grant whose target_id is the target agent id or an
\* ALLOW_PROVIDER grant whose target_id is the target provider id; a list of
\* grants that each name only the id of the other kind does not authorize,
\* and the empty list never does.
C35_DirectionalCheck ==
  permission_query.returned =>
    LET q == permission_query
        perms == q.agent_permissions
    IN /\ q.result <=> \E i \in DOMAIN perms : Authorizes(perms[i], q)
       /\ (\A i \in DOMAIN perms : CrossKind(perms[i], q)) => ~q.result
       /\ perms = << >> => ~q.result

\* C35 witness: the check refused a list holding an ALLOW_AGENT grant naming
\* the provider id and an ALLOW_PROVIDER grant naming the agent id.
C35_Witness ==
  LET q == permission_query IN
  /\ q.returned
  /\ ~q.result
  /\ q.target_agent_id = "a1"
  /\ q.target_provider_id = "p1"
  /\ [type |-> ALLOW_AGENT, target_id |-> "p1"] \in GrantsIn(q.agent_permissions)
  /\ [type |-> ALLOW_PROVIDER, target_id |-> "a1"] \in GrantsIn(q.agent_permissions)

\* C35 witness: the check accepted a list whose last grant is the only one
\* that authorizes, by provider.
C35_ProviderGrantLast ==
  LET q == permission_query IN
  /\ q.returned
  /\ q.result
  /\ Len(q.agent_permissions) = MaxPerms
  /\ q.target_agent_id # q.target_provider_id
  /\ \A i \in 1..(MaxPerms - 1) : CrossKind(q.agent_permissions[i], q)
  /\ q.agent_permissions[MaxPerms] =
       [type |-> ALLOW_PROVIDER, target_id |-> q.target_provider_id]


\* The step of k takes a message off the transport that passes the format
\* check and carries meta.sender_id.
ReceivesSender(k) ==
  /\ StepOf(k)
  /\ connection[k].pc = "receiving"
  /\ connection'[k].pc # "ended"
  /\ ~Malformed(connection'[k].frame)
  /\ connection'[k].frame.sender_id # Missing

\* C38: the sender id is recorded on the connection state the first time it
\* appears: the connection's agent id is unset until the first well-formed
\* message carrying meta.sender_id, is then set to that sender id, and is not
\* changed by later messages on the same connection that carry a different
\* sender_id.
C38_SenderRecordedOnce ==
  /\ [][\A k \in ConnIds :
         (StepOf(k) /\ connection[k].agent_id = None /\ ~ReceivesSender(k)) =>
           connection'[k].agent_id = None]_vars
  /\ [][\A k \in ConnIds :
         (ReceivesSender(k) /\ connection[k].agent_id = None) =>
           connection'[k].agent_id = connection'[k].frame.sender_id]_vars
  /\ [][\A k \in ConnIds :
         (StepOf(k) /\ connection[k].agent_id # None) =>
           connection'[k].agent_id = connection[k].agent_id]_vars

\* What the code does keep: the agent id is unset until the first well-formed
\* message carrying meta.sender_id and is, after every such message, that
\* message's sender id; no other step changes it.
C38_LastSenderRecorded ==
  /\ [][\A k \in ConnIds :
         (StepOf(k) /\ ~ReceivesSender(k)) =>
           connection'[k].agent_id = connection[k].agent_id]_vars
  /\ [][\A k \in ConnIds :
         ReceivesSender(k) =>
           connection'[k].agent_id = connection'[k].frame.sender_id]_vars

\* C38 witness: a connection that opened channel c1 as sender s1 has s2
\* recorded as its agent id, from the CHANNEL_CLOSE it sent afterwards.
C38_Witness ==
  \E k \in ConnIds :
    /\ connection[k].channel_id = "c1"
    /\ connection[k].frame.type = CHANNEL_CLOSE
    /\ connection[k].frame.sender_id = "s2"
    /\ connection[k].agent_id = "s2"


(***************************************************************************)
(* Properties of TokenService calls running side by side                   *)
(***************************************************************************)

\* The step is a step of caller p's call.
ThreadStep(p) == thread'[p] # thread[p]

\* What the call of t would return or raise if it ran alone, start to end,
\* against the registry as it was when the call began, at the clock value the
\* call read, with the id uuid4() gave it.
AloneOutcome(t) ==
  LET c == t.args IN
  IF c.op = "create"
  THEN create_interaction_token(t.reg, t.now, t.out.token.claims.jti, c.agent_id,
                                c.target_agent_id, c.dpop_proof, c.dpop_public_key,
                                c.method, c.url, c.expires_delta, c.fault)
  ELSE verify_token(t.reg, t.now, c.token, c.expected_target, c.dpop_proof,
                    c.method, c.url, c.fault)

\* C31: create_interaction_token and verify_token never modify agent records
\* or permission grants and keep no state between calls: however the steps of
\* concurrent calls interleave, each call's outcome is the one it would have
\* running alone against the permission state and the clock of its call, and
\* a step of a call changes nothing outside the call but the audit events it
\* logs and, for a token it signs, the set of issued tokens.
C31_CallsDoNotInterfere ==
  /\ [](\A p \in Callers :
          thread[p].pc = "done" => thread[p].out = AloneOutcome(thread[p]))
  /\ [][\A p \in Callers :
         ThreadStep(p) =>
           /\ registry' = registry
           /\ now' = now
           /\ \A q \in Callers \ {p} : thread'[q] = thread[q]
           /\ \/ issued' = issued
              \/ /\ thread[p].pc = "sign"
                 /\ thread'[p].out.ok
                 /\ issued' = issued \cup {thread'[p].out.token}]_vars

\* C31 witness: one call was refused because its agent lookup raised, and has
\* returned, while another call for the same pair, whose permission check
\* passed, is between its proof check and its signature.
C31_Witness ==
  /\ thread["t1"].pc = "done"
  /\ thread["t1"].args.op = "create"
  /\ thread["t1"].args.fault = "get_agent"
  /\ ~thread["t1"].out.ok
  /\ thread["t1"].out.cause = PermissionDenied("a1", "a2")
  /\ thread["t2"].pc = "sign"
  /\ thread["t2"].permitted

\* C31 witness: a create and a verify have both returned successfully, the
\* verify having read the clock at another instant than the create.
C31_CreateBesideVerify ==
  /\ thread["t1"].pc = "done"
  /\ thread["t1"].args.op = "create"
  /\ thread["t1"].out.ok
  /\ thread["t2"].pc = "done"
  /\ thread["t2"].args.op = "verify"
  /\ thread["t2"].out.ok
  /\ thread["t2"].now # thread["t1"].now

\* The clock value is inside the token's validity window.
InWindowAt(t, clock) ==
  /\ t.claims.nbf * TicksPerSecond <= clock
  /\ clock < t.claims.exp * TicksPerSecond

\* Two finished calls gave the same result: the same claim set, or the same
\* error.
SameResult(o1, o2) ==
  /\ o1.ok = o2.ok
  /\ o1.payload = o2.payload
  /\ o1.error = o2.error
  /\ o1.cause = o2.cause

\* Two finished verify_token calls on the same token with the same arguments,
\* against the same permissions, both inside the token's validity window.
VerifiedTwice(t1, t2) ==
  /\ t1.pc = "done" /\ t2.pc = "done"
  /\ t1.args.op = "verify" /\ t2.args = t1.args
  /\ t1.reg = t2.reg
  /\ InWindowAt(t1.args.token, t1.now)
  /\ InWindowAt(t2.args.token, t2.now)

\* C32: verification does not consume a token: two verify_token calls on the
\* same token with the same arguments, against unchanged permissions and
\* both before expiry, return the same result, the same claim set or the
\* same error kind; no step of verify_token changes the issued tokens or
\* the registry.
C32_VerifyDoesNotConsume ==
  /\ [](\A p \in Callers, q \in Callers :
          VerifiedTwice(thread[p], thread[q]) =>
            SameResult(thread[p].out, thread[q].out))
  /\ [][\A p \in Callers :
         (ThreadStep(p) /\ thread[p].args.op = "verify") =>
           /\ issued' = issued
           /\ registry' = registry]_vars

\* C32 witness: the same token was verified twice with the same proof, at two
\* different instants, and both calls returned its claims.
C32_Witness ==
  /\ VerifiedTwice(thread["t1"], thread["t2"])
  /\ thread["t1"].args.dpop_proof # NoProof
  /\ thread["t1"].now # thread["t2"].now
  /\ thread["t1"].out.ok
  /\ thread["t2"].out.ok
  /\ thread["t2"].out.payload = thread["t1"].args.token.claims

\* C32 witness: the same token was verified twice with the same arguments and
\* both calls failed as revoked.
C32_RevokedTwice ==
  /\ VerifiedTwice(thread["t1"], thread["t2"])
  /\ ~thread["t1"].out.ok
  /\ thread["t1"].out.cause = PermissionRevoked
  /\ thread["t2"].out.cause = PermissionRevoked

\* The same token verified with the same arguments before and after a grant
\* was revoked: the precondition on permissions is needed.
C32_DiffersAcrossRevocation ==
  /\ thread["t1"].pc = "done" /\ thread["t2"].pc = "done"
  /\ thread["t1"].args.op = "verify"
  /\ thread["t2"].args = thread["t1"].args
  /\ thread["t1"].reg # thread["t2"].reg
  /\ thread["t1"].out.ok
  /\ ~thread["t2"].out.ok

\* The step of caller p signs and returns a token.
SignsToken(p) ==
  /\ thread[p].pc = "sign"
  /\ thread'[p].pc = "done"
  /\ thread'[p].out.ok

\* C33: every successfully issued token carries a fresh token id: over any
\* sequence of create_interaction_token calls, calls with identical arguments
\* and calls running side by side included, the jti of a token being issued
\* is the jti of no token issued before, and no two issued tokens have the
\* same jti.
C33_FreshTokenId ==
  /\ [][\A p \in Callers :
         SignsToken(p) =>
           /\ thread'[p].out.token.claims.jti \notin UsedIds
           /\ thread'[p].out.token \notin issued
           /\ issued' = issued \cup {thread'[p].out.token}]_vars
  /\ [](\A t1 \in issued, t2 \in issued :
          t1.claims.jti = t2.claims.jti => t1 = t2)
  /\ [](\A p \in Callers, q \in Callers :
          ( /\ p # q
            /\ thread[p].pc = "done" /\ thread[q].pc = "done"
            /\ thread[p].out.ok /\ thread[q].out.ok
            /\ thread[p].args.op = "create" /\ thread[q].args.op = "create" ) =>
            thread[p].out.token.claims.jti # thread[q].out.token.claims.jti)

\* C33 witness: two calls with identical arguments, reading the same clock
\* value, have each returned a token; the tokens differ in their jti alone.
C33_Witness ==
  /\ thread["t1"].pc = "done"
  /\ thread["t2"].pc = "done"
  /\ thread["t1"].args.op = "create"
  /\ thread["t2"].args = thread["t1"].args
  /\ thread["t1"].now = thread["t2"].now
  /\ thread["t1"].out.ok
  /\ thread["t2"].out.ok
  /\ thread["t1"].out.token.claims.jti # thread["t2"].out.token.claims.jti
  /\ [thread["t1"].out.token.claims EXCEPT !.jti = ""]
       = [thread["t2"].out.token.claims EXCEPT !.jti = ""]

====
